---------------------------- MODULE Spec2Model ----------------------------
(***************************************************************************)
(* A model of prompt-cleaner-global: the three blob-backed collections     *)
(* (accepted corpus, pending-review queue, rejected pile) of database.py,  *)
(* the conditional writes of cloud_storage.py, the dedup key of            *)
(* text_utils.py and the raw-pool selection of workflow.py.                *)
(*                                                                         *)
(* Text is a sequence of tokens: a token is a word (a maximal run of word  *)
(* characters) or SP (one whitespace character).  A Python dict is a       *)
(* function from its keys, so a missing key is a missing DOMAIN element.   *)
(***************************************************************************)
EXTENDS Integers, Sequences, FiniteSets, TLC

(***************************************************************************)
(* text_utils.py                                                           *)
(***************************************************************************)
SP == " "

\* str.lower() on one token
Lower(tok) ==
    CASE tok = "Hello"  -> "hello"
      [] tok = "Player" -> "player"
      [] tok = "DRINKS" -> "drinks"
      [] OTHER          -> tok

\* the alternation of the pattern \b(?:player|drinks)\b under re.IGNORECASE
IsStopWord(tok) == Lower(tok) \in {"player", "drinks"}

RECURSIVE LStrip(_)
LStrip(t) == IF t # <<>> /\ Head(t) = SP THEN LStrip(Tail(t)) ELSE t

RECURSIVE RStrip(_)
RStrip(t) ==
    IF t # <<>> /\ t[Len(t)] = SP THEN RStrip(SubSeq(t, 1, Len(t) - 1)) ELSE t

\* str.strip()
Strip(t) == RStrip(LStrip(t))

\* re.sub(r"\b(?:player|drinks)\b", " ", text, flags=re.IGNORECASE)
RemoveStopWords(t) == [i \in 1..Len(t) |-> IF IsStopWord(t[i]) THEN SP ELSE t[i]]

\* re.sub(r"\s+", " ", text)
RECURSIVE CollapseSpaces(_)
CollapseSpaces(t) ==
    IF Len(t) < 2 THEN t
    ELSE IF t[1] = SP /\ t[2] = SP THEN CollapseSpaces(Tail(t))
    ELSE <<Head(t)>> \o CollapseSpaces(Tail(t))

LowerText(t) == [i \in 1..Len(t) |-> Lower(t[i])]

build_dedup_key(normalized_text) ==
    LET text == Strip(normalized_text)
    IN  IF text = <<>> THEN <<>>
        ELSE LowerText(Strip(CollapseSpaces(RemoveStopWords(text))))

(***************************************************************************)
(* Python dicts and lists                                                  *)
(***************************************************************************)
\* d.get(f, dflt)
Get(d, f, dflt) == IF f \in DOMAIN d THEN d[f] ELSE dflt

\* d[f] = v
SetField(d, f, v) == [x \in DOMAIN d \cup {f} |-> IF x = f THEN v ELSE d[x]]

\* str(d.get('normalized') or '')
NormOf(d) == Get(d, "normalized", <<>>)

\* the index of the first row whose dedup key equals key, 0 when there is none
FirstMatch(data, key) ==
    LET hits == {i \in 1..Len(data) : build_dedup_key(NormOf(data[i])) = key}
    IN  IF hits = {} THEN 0 ELSE CHOOSE i \in hits : \A j \in hits : i <= j

\* an increment that forgets the + 1: the row is written back as it was
IncrementAtForgotten(data, i) ==
    [data EXCEPT ![i] = SetField(@, "occurrences", Get(@, "occurrences", 1))]

\* existing['occurrences'] = existing.get('occurrences', 1) + 1
IncrementAt(data, i) ==
    [data EXCEPT ![i] = SetField(@, "occurrences", Get(@, "occurrences", 1) + 1)]

(***************************************************************************)
(* The inputs: normalized texts and the items built on them                *)
(***************************************************************************)
NHelloWorld       == <<"hello", SP, "world">>
NHelloPlayerWorld == <<"Hello", SP, "Player", SP, SP, "world">>
NFoo              == <<"foo">>
NPlayerDrinks     == <<"Player", SP, "DRINKS">>

Norms == {NHelloWorld, NHelloPlayerWorld, NFoo, NPlayerDrinks}

\* Item.to_dict() of an item the pipeline completed; the reviewer passes on the
\* rows popped from the queue, which carry no occurrences
PipelineItem(n) ==
    [default |-> <<"raw">>, cleaned |-> <<"clean">>, normalized |-> n,
     occurrences |-> 1]

QueueRow(n) == [default |-> <<"raw">>, cleaned |-> <<"clean">>, normalized |-> n]

\* the texts looked up by the increments and the removal: one that meets the
\* row of another text with its key, and one whose key is empty
LookupNorms == {NHelloPlayerWorld, NPlayerDrinks}

\* what the pipeline hands to add_to_user_selection
PipelineItems == {PipelineItem(n) : n \in Norms}

\* what the reviewer hands to add_to_database and add_to_discards: the rows it
\* popped from the queue, and for the corpus a manual entry with occurrences 1
ReviewItems == {QueueRow(n) : n \in Norms}

CorpusItems == ReviewItems \cup {PipelineItem(NFoo)}


(***************************************************************************)
(* cloud_storage.py: a blob is its generation and its content.  Generation *)
(* 0 is "no such object": downloadJson and downloadTextFile answer None    *)
(* for it and both uploads turn None into if_generation_match=0.           *)
(***************************************************************************)
NoGeneration == 0

AbsentBlob == [generation |-> NoGeneration, data |-> <<>>]

\* an upload that states no precondition: the write always goes through
PreconditionAlwaysHolds(b, ifGenerationMatch) == TRUE

\* blob.upload_from_string(..., if_generation_match=g): does the precondition hold

PreconditionHolds(b, ifGenerationMatch) == b.generation = ifGenerationMatch

\* the object after a successful upload: the store assigns the next generation
Uploaded(b, data) == [generation |-> b.generation + 1, data |-> data]

\* content that is no JSON array of rows: text that does not parse, and a JSON
\* object.  It is kept where the rows are, as one entry that is no row.
NotJson == <<[json |-> "not json"]>>

NotAnArray == <<[json |-> "{not an array}"]>>

IsArray(content) == \A i \in 1..Len(content) : "json" \notin DOMAIN content[i]

\* a loader that hands on whatever the blob holds
LoadedUnchecked(content) == content

\* json.loads(content) under try/except, and `if not isinstance(data, list)`:
\* the rows when the content is an array, else []
Loaded(content) == IF IsArray(content) THEN content ELSE <<>>

\* downloadJson, and _load_json on downloadTextFile: the rows and the generation
Downloaded(b) == [generation |-> b.generation, data |-> Loaded(b.data)]

(***************************************************************************)
(* database.py: what each mutation uploads, from the rows it downloaded    *)
(***************************************************************************)
maxRetries == 5

\* a retry loop without a budget: it never gives up
NeverExhausted(failures) == FALSE

\* attempt += 1; if attempt > maxRetries: raise

RetriesExhausted(failures) == failures > maxRetries

\* GlobalDatabaseStore._migrate_items_if_needed
MigrateItemsIfNeeded(data) ==
    [i \in 1..Len(data) |->
        IF "occurrences" \in DOMAIN data[i] THEN data[i]
        ELSE SetField(data[i], "occurrences", 1)]

\* GlobalDatabaseStore.add_to_database, one pass of its loop up to the upload
AddToDatabaseData(downloaded, item) ==
    LET data            == MigrateItemsIfNeeded(downloaded)
        normalizedValue == NormOf(item)
        i == IF normalizedValue # <<>>
             THEN FirstMatch(data, build_dedup_key(normalizedValue)) ELSE 0
    IN  IF i > 0 THEN IncrementAt(data, i)
        ELSE Append(data, IF "occurrences" \in DOMAIN item THEN item
                          ELSE SetField(item, "occurrences", 1))

\* GlobalDatabaseStore.increment_database_item_occurrences: the row to raise, or 0
IncrementDatabaseIndex(data, normalized) ==
    LET candidateKey == build_dedup_key(normalized)
    IN  IF candidateKey = <<>> THEN 0 ELSE FirstMatch(data, candidateKey)

\* GlobalDatabaseStore.remove_from_database_by_normalized: the candidate keys
CandidateKeys(normalizedValues) ==
    {build_dedup_key(Strip(normalizedValues[i])) : i \in 1..Len(normalizedValues)}
        \ {<<>>}

RECURSIVE ToKeep(_, _)
ToKeep(data, candidateKeys) ==
    IF data = <<>> THEN <<>>
    ELSE LET normVal == NormOf(Head(data))
             key     == IF normVal # <<>> THEN build_dedup_key(normVal) ELSE <<>>
         IN  IF key # <<>> /\ key \in candidateKeys
             THEN ToKeep(Tail(data), candidateKeys)
             ELSE <<Head(data)>> \o ToKeep(Tail(data), candidateKeys)

\* the guard of add_to_user_selection and add_to_discards against empty records
IsComplete(item) ==
    /\ Strip(Get(item, "default", <<>>)) # <<>>
    /\ Strip(Get(item, "cleaned", <<>>)) # <<>>
    /\ Strip(NormOf(item)) # <<>>

\* a queue without the duplicate test: no duplicate is ever found
NoDuplicateIndex(data, item) == 0

\* add_to_user_selection, add_to_discards: the index of the duplicate row, or 0
DuplicateIndex(data, item) ==
    LET candidateKey == build_dedup_key(Strip(NormOf(item)))
    IN  IF candidateKey # <<>> THEN FirstMatch(data, candidateKey) ELSE 0

UserSelectionRow(item) ==
    [default |-> Strip(item.default), cleaned |-> Strip(item.cleaned),
     normalized |-> Strip(NormOf(item))]

DiscardsRow(item) ==
    [default |-> Strip(item.default), cleaned |-> Strip(item.cleaned),
     normalized |-> Strip(NormOf(item)),
     occurrences |-> Get(item, "occurrences", 1)]

\* DiscardedItemsStore.add_to_discards: the rows it saves
AddToDiscardsData(data, item) ==
    LET i == DuplicateIndex(data, item)
    IN  IF i > 0 THEN IncrementAt(data, i) ELSE Append(data, DiscardsRow(item))

\* data.pop(): the newest row is taken
PoppedLast(data) ==
    [item |-> data[Len(data)], rest |-> SubSeq(data, 1, Len(data) - 1)]

\* item = data.pop(0): the oldest row, and the rows that stay
Popped(data) == [item |-> Head(data), rest |-> Tail(data)]

\* UserSelectionStore.add_to_user_selection: the rows it saves
AddToUserSelectionData(data, item) == Append(data, UserSelectionRow(item))

\* DiscardedItemsStore.exists_in_discards, on the rows it loaded
ExistsInRows(data, normalized) ==
    LET candidateKey == build_dedup_key(normalized)
    IN  candidateKey # <<>> /\ FirstMatch(data, candidateKey) > 0

\* _refresh_cache: the dedup keys of the rows with a non-empty normalized
DedupKeysOf(data) ==
    {build_dedup_key(NormOf(data[i])) : i \in {j \in 1..Len(data) : NormOf(data[j]) # <<>>}}


(***************************************************************************)
(* The state: the blobs, and per process the call it is in.  A step of a   *)
(* call is one request to the store (a download or a conditional upload)   *)
(* with the computation that follows it up to the next request.            *)
(***************************************************************************)
VARIABLES
    blob,         \* collection -> [generation, data]: the objects in the bucket
    pc,           \* process -> where its current call stands
    call,         \* process -> the call it is in: [kind, arg]
    ldata,        \* process -> the rows its next upload writes
    lgen,         \* process -> generation / self._currentGeneration
    attempt,      \* process -> the failed attempts of the current call
    lret,         \* process -> what the call returns once its upload succeeds
    dedupCache,   \* process -> GlobalDatabaseStore._dedupCache
    initialized,  \* process -> GlobalDatabaseStore._initialized
    session,      \* the rows the reviewer's page holds: popped, not yet decided
    lockFile,     \* .prefetcher.lock in the project directory: absent or present
    log           \* the calls made so far, in the order they began: [p, kind, arg],
                  \* status (pending, returned, raised), val (the result),
                  \* uploads (conditional writes sent), alone (no call was
                  \* running when it began), before (the rows then stored)

vars == <<blob, pc, call, ldata, lgen, attempt, lret, dedupCache, initialized,
          session, lockFile, log>>

Procs == {"p1", "p2"}

Colls == {"db", "sel", "disc"}

\* the objects in the bucket: the three collections and the raw-line pool
Blobs == Colls \cup {"pool"}

\* the calls the model lets the processes make in one behaviour: on the
\* accepted corpus and the rejected pile, and on the pending queue
MaxCalls == 2

MaxQueueCalls == 3

\* the Workflow runs in one behaviour, and the largest batch size x
MaxRuns == 2

MaxX == 2

NoCall == [kind |-> "none", arg |-> <<>>]

\* the collection a call works on
CollOf(kind) ==
    CASE kind \in {"add_to_database", "increment_database_item_occurrences",
                   "remove_from_database_by_normalized",
                   "exists_in_database"}                      -> "db"
      [] kind \in {"add_to_user_selection", "pop_user_selection_item"} -> "sel"
      [] kind = "_select_and_remove_items" -> "pool"
      [] OTHER -> "disc"

CallBound(kind) ==
    CASE CollOf(kind) = "sel"  -> MaxQueueCalls
      [] CollOf(kind) = "pool" -> MaxRuns
      [] OTHER                 -> MaxCalls

\* no process is in a call, no store object was constructed, nothing was logged
NothingRunning ==
    /\ pc = [p \in Procs |-> "idle"]
    /\ call = [p \in Procs |-> NoCall]
    /\ ldata = [p \in Procs |-> <<>>]
    /\ lgen = [p \in Procs |-> NoGeneration]
    /\ attempt = [p \in Procs |-> 0]
    /\ lret = [p \in Procs |-> <<>>]
    /\ dedupCache = [p \in Procs |-> {}]
    /\ initialized = [p \in Procs |-> FALSE]
    /\ log = <<>>
    /\ session = <<>>
    /\ lockFile = "absent"

Init ==
    /\ blob = [c \in Blobs |-> AbsentBlob]
    /\ NothingRunning

\* the entry of the log that p's current call made
Pending(p) == CHOOSE i \in 1..Len(log) : log[i].p = p /\ log[i].status = "pending"

\* a call begins: kind(arg) by p, next at step `first`
Begin(p, kind, arg, first) ==
    /\ pc[p] = "idle"
    /\ Len(log) < CallBound(kind)
    /\ call' = [call EXCEPT ![p] = [kind |-> kind, arg |-> arg]]
    /\ pc' = [pc EXCEPT ![p] = first]
    /\ attempt' = [attempt EXCEPT ![p] = 0]
    /\ log' = Append(log, [p |-> p, kind |-> kind, arg |-> arg,
                           status |-> "pending", val |-> <<>>, uploads |-> 0,
                           alone |-> \A q \in Procs : pc[q] = "idle",
                           before |-> blob[CollOf(kind)].data])
    /\ UNCHANGED <<blob, ldata, lgen, lret, dedupCache, initialized, session, lockFile>>

\* a call ends: it returns val (status "returned") or raises (status "raised"),
\* at a step that sent `sent` uploads
Finish(p, status, val, sent) ==
    /\ pc' = [pc EXCEPT ![p] = "idle"]
    /\ call' = [call EXCEPT ![p] = NoCall]
    /\ ldata' = [ldata EXCEPT ![p] = <<>>]
    /\ lgen' = [lgen EXCEPT ![p] = NoGeneration]
    /\ attempt' = [attempt EXCEPT ![p] = 0]
    /\ lret' = [lret EXCEPT ![p] = <<>>]
    /\ log' = [log EXCEPT ![Pending(p)] =
                  [@ EXCEPT !.status = status, !.val = val, !.uploads = @ + sent]]
    /\ UNCHANGED <<session, lockFile>>

End(p, status, val) == Finish(p, status, val, 0)

\* the next step is the upload of data, and the call will return ret
PlanUpload(p, data, generation, ret, step) ==
    /\ ldata' = [ldata EXCEPT ![p] = data]
    /\ lgen' = [lgen EXCEPT ![p] = generation]
    /\ lret' = [lret EXCEPT ![p] = ret]
    /\ pc' = [pc EXCEPT ![p] = step]
    /\ UNCHANGED <<call, attempt, log, session, lockFile>>


\* the log once p's current call has sent one more upload
CountUpload(p) == [log EXCEPT ![Pending(p)].uploads = @ + 1]

(***************************************************************************)
(* GlobalDatabaseStore (the accepted corpus)                               *)
(***************************************************************************)
DbFirstStep(p) == IF initialized[p] THEN "db_download" ELSE "db_initialize"

CallAddToDatabase(p) ==
    \E item \in CorpusItems : Begin(p, "add_to_database", item, DbFirstStep(p))

CallIncrementDatabaseItemOccurrences(p) ==
    \E n \in LookupNorms :
        Begin(p, "increment_database_item_occurrences", n, DbFirstStep(p))

CallRemoveFromDatabaseByNormalized(p) ==
    \E n \in LookupNorms :
        Begin(p, "remove_from_database_by_normalized", <<n>>, DbFirstStep(p))

\* initialize(): the first call of a store downloads the blob into the caches
DbInitialize(p) ==
    /\ pc[p] = "db_initialize"
    /\ dedupCache' = [dedupCache EXCEPT
                         ![p] = DedupKeysOf(Downloaded(blob["db"]).data)]
    /\ initialized' = [initialized EXCEPT ![p] = TRUE]
    /\ pc' = [pc EXCEPT ![p] = IF call[p].kind = "exists_in_database"
                                THEN "db_exists" ELSE "db_download"]
    /\ UNCHANGED <<blob, call, ldata, lgen, attempt, lret, log, session, lockFile>>

\* downloadJson and the pass over the rows, up to the upload (or the return)
DbDownload(p) ==
    /\ pc[p] = "db_download"
    /\ UNCHANGED <<blob, dedupCache, initialized>>
    /\ LET b    == Downloaded(blob["db"])
           kind == call[p].kind
           arg  == call[p].arg
       IN  CASE kind = "add_to_database" ->
                  PlanUpload(p, AddToDatabaseData(b.data, arg), b.generation,
                             <<>>, "db_upload")
             [] kind = "increment_database_item_occurrences" ->
                  LET data == MigrateItemsIfNeeded(b.data)
                      i    == IncrementDatabaseIndex(data, arg)
                  IN  IF i = 0 THEN End(p, "returned", <<>>)
                      ELSE PlanUpload(p, IncrementAt(data, i), b.generation,
                                      <<>>, "db_upload")
             [] kind = "remove_from_database_by_normalized" ->
                  LET candidateKeys == CandidateKeys(arg)
                      toKeep        == ToKeep(b.data, candidateKeys)
                      removedCount  == Len(b.data) - Len(toKeep)
                  IN  IF candidateKeys = {} THEN End(p, "returned", <<0>>)
                      ELSE IF removedCount = 0
                      THEN PlanUpload(p, <<>>, b.generation, <<0>>, "db_refresh")
                      ELSE PlanUpload(p, toKeep, b.generation, <<removedCount>>,
                                      "db_upload")

\* uploadJsonWithPreconditions, and the except branch when it fails
DbUpload(p) ==
    /\ pc[p] = "db_upload"
    /\ UNCHANGED initialized
    /\ IF PreconditionHolds(blob["db"], lgen[p])
       THEN /\ blob' = [blob EXCEPT !["db"] = Uploaded(@, ldata[p])]
            /\ dedupCache' =
                 [dedupCache EXCEPT ![p] =
                    IF call[p].kind = "add_to_database" /\ NormOf(call[p].arg) # <<>>
                    THEN @ \cup {build_dedup_key(NormOf(call[p].arg))} ELSE @]
            /\ pc' = [pc EXCEPT ![p] = "db_refresh"]
            /\ log' = CountUpload(p)
            /\ UNCHANGED <<call, ldata, lgen, attempt, lret, session, lockFile>>
       ELSE /\ UNCHANGED <<blob, dedupCache>>
            /\ IF RetriesExhausted(attempt[p] + 1)
               THEN Finish(p, "raised", <<>>, 1)
               ELSE /\ attempt' = [attempt EXCEPT ![p] = @ + 1]
                    /\ pc' = [pc EXCEPT ![p] = "db_download"]
                    /\ log' = CountUpload(p)
                    /\ UNCHANGED <<call, ldata, lgen, lret, session, lockFile>>

\* _refresh_cache after the write, then the return
DbRefresh(p) ==
    /\ pc[p] = "db_refresh"
    /\ dedupCache' = [dedupCache EXCEPT
                         ![p] = DedupKeysOf(Downloaded(blob["db"]).data)]
    /\ End(p, "returned", lret[p])
    /\ UNCHANGED <<blob, initialized>>


(***************************************************************************)
(* UserSelectionStore (the pending-review queue) and DiscardedItemsStore   *)
(* (the rejected pile): the two classes share _load_json and _save_json    *)
(* line for line, so one set of steps serves both, on CollOf(kind).        *)
(***************************************************************************)
CallAddToUserSelection(p) ==
    \E item \in PipelineItems :
        IsComplete(item) /\ Begin(p, "add_to_user_selection", item, "load")

CallPopUserSelectionItem(p) == Begin(p, "pop_user_selection_item", <<>>, "load")

CallAddToDiscards(p) ==
    \E item \in ReviewItems :
        IsComplete(item) /\ Begin(p, "add_to_discards", item, "load")

CallIncrementDiscardedItemOccurrences(p) ==
    \E n \in LookupNorms : Begin(p, "increment_discarded_item_occurrences", n, "load")

\* _load_json and the pass over the rows, up to _save_json (or the return)
TextLoad(p) ==
    /\ pc[p] = "load"
    /\ UNCHANGED <<blob, dedupCache, initialized>>
    /\ LET b    == Downloaded(blob[CollOf(call[p].kind)])
           kind == call[p].kind
           arg  == call[p].arg
       IN  CASE kind = "add_to_user_selection" ->
                  IF DuplicateIndex(b.data, arg) > 0 THEN End(p, "returned", <<>>)
                  ELSE PlanUpload(p, AddToUserSelectionData(b.data, arg),
                                  b.generation, <<>>, "upload")
             [] kind = "pop_user_selection_item" ->
                  IF b.data = <<>> THEN End(p, "returned", <<>>)
                  ELSE PlanUpload(p, Popped(b.data).rest, b.generation,
                                  <<Popped(b.data).item>>, "upload")
             [] kind = "add_to_discards" ->
                  PlanUpload(p, AddToDiscardsData(b.data, arg), b.generation,
                             <<>>, "upload")
             [] kind = "increment_discarded_item_occurrences" ->
                  LET candidateKey == build_dedup_key(arg)
                      i == IF candidateKey = <<>> THEN 0
                           ELSE FirstMatch(b.data, candidateKey)
                  IN  IF i = 0 THEN End(p, "returned", <<>>)
                      ELSE PlanUpload(p, IncrementAt(b.data, i), b.generation,
                                      <<>>, "upload")

\* _save_json: uploadTextFile of the text serialized before the loop, and the
\* except branch when it fails
TextUpload(p) ==
    /\ pc[p] = "upload"
    /\ UNCHANGED <<dedupCache, initialized>>
    /\ LET c == CollOf(call[p].kind)
       IN  IF PreconditionHolds(blob[c], lgen[p])
           THEN /\ blob' = [blob EXCEPT ![c] = Uploaded(@, ldata[p])]
                /\ Finish(p, "returned", lret[p], 1)
           ELSE /\ UNCHANGED blob
                /\ IF RetriesExhausted(attempt[p] + 1)
                   THEN Finish(p, "raised", <<>>, 1)
                   ELSE /\ attempt' = [attempt EXCEPT ![p] = @ + 1]
                        /\ pc' = [pc EXCEPT ![p] = "reload"]
                        /\ log' = CountUpload(p)
                        /\ UNCHANGED <<call, ldata, lgen, lret, session, lockFile>>

\* _save_json: "Refresh data and generation": _load_json sets
\* self._currentGeneration and its result is dropped
TextReload(p) ==
    /\ pc[p] = "reload"
    /\ lgen' = [lgen EXCEPT ![p] = blob[CollOf(call[p].kind)].generation]
    /\ pc' = [pc EXCEPT ![p] = "upload"]
    /\ UNCHANGED <<blob, call, ldata, attempt, lret, dedupCache, initialized,
                   session, lockFile, log>>

(***************************************************************************)
(* The existence checks of the two stores.  SpecExists: two processes, on  *)
(* empty collections or on collections that hold a row, each making calls  *)
(* that write and calls that ask.                                          *)
(***************************************************************************)
CallExistsInDatabase(p) ==
    \E n \in LookupNorms :
        Begin(p, "exists_in_database", n,
              IF initialized[p] THEN "db_exists" ELSE "db_initialize")

\* a cache that is not refreshed: the answer comes from what the store last saw
CacheNotRefreshed(cache, data) == cache

\* await self._refresh_cache(): self._dedupCache is rebuilt from the download
CacheRefreshed(cache, data) == DedupKeysOf(data)

\* GlobalDatabaseStore.exists_in_database after initialize(): _refresh_cache
\* and `candidateKey in self._dedupCache`
DbExists(p) ==
    /\ pc[p] = "db_exists"
    /\ dedupCache' = [dedupCache EXCEPT
                         ![p] = CacheRefreshed(@, Downloaded(blob["db"]).data)]
    /\ End(p, "returned", <<build_dedup_key(call[p].arg) \in dedupCache'[p]>>)
    /\ UNCHANGED <<blob, initialized>>

CallExistsInDiscards(p) ==
    \E n \in LookupNorms : Begin(p, "exists_in_discards", n, "exists_load")

\* DiscardedItemsStore.exists_in_discards: _load_json and the pass over the rows
TextExists(p) ==
    /\ pc[p] = "exists_load"
    /\ End(p, "returned", <<ExistsInRows(Downloaded(blob["disc"]).data,
                                          call[p].arg)>>)
    /\ UNCHANGED <<blob, dedupCache, initialized>>

(***************************************************************************)
(* The store layer.  Spec: two processes calling the accepted corpus and   *)
(* the rejected pile.  SpecQueue: two processes calling the pending queue. *)
(***************************************************************************)
Next ==
    \E p \in Procs :
        \/ CallAddToDatabase(p)
        \/ CallIncrementDatabaseItemOccurrences(p)
        \/ CallRemoveFromDatabaseByNormalized(p)
        \/ DbInitialize(p)
        \/ DbDownload(p)
        \/ DbUpload(p)
        \/ DbRefresh(p)
        \/ CallAddToDiscards(p)
        \/ CallIncrementDiscardedItemOccurrences(p)
        \/ TextLoad(p)
        \/ TextUpload(p)
        \/ TextReload(p)

Spec == Init /\ [][Next]_vars

NextQueue ==
    \E p \in Procs :
        \/ CallAddToUserSelection(p)
        \/ CallPopUserSelectionItem(p)
        \/ TextLoad(p)
        \/ TextUpload(p)
        \/ TextReload(p)

SpecQueue == Init /\ [][NextQueue]_vars


(***************************************************************************)
(* SpecRetry: one call of one process on collections that hold a row,      *)
(* against a writer outside the model's processes that gets its own write  *)
(* in just before the call's upload, as often as MaxGeneration allows.     *)
(***************************************************************************)
MaxGeneration == 8

MaxRetryCalls == 1

StoredRow == [default |-> <<"raw">>, cleaned |-> <<"clean">>,
              normalized |-> NHelloWorld, occurrences |-> 1]

InitRetry ==
    /\ blob = [c \in Blobs |->
                 IF c = "pool" THEN AbsentBlob
                 ELSE [generation |-> 1,
                       data |-> IF c = "sel" THEN <<QueueRow(NHelloWorld)>>
                                ELSE <<StoredRow>>]]
    /\ NothingRunning

\* what the other writer uploads: its own add_to_database or add_to_discards of
\* NFoo, and on the queue its pop (or its add when the queue is empty)
OtherWriterData(c, data) ==
    CASE c = "db"   -> AddToDatabaseData(data, QueueRow(NFoo))
      [] c = "disc" -> AddToDiscardsData(data, QueueRow(NFoo))
      [] c = "sel"  -> IF data # <<>> THEN Tail(data)
                       ELSE <<UserSelectionRow(QueueRow(NFoo))>>

\* another client's conditional upload succeeds between p's read and p's upload
Interfere ==
    \E p \in Procs :
        /\ pc[p] \in {"db_upload", "upload"}
        /\ LET c == CollOf(call[p].kind)
           IN  /\ PreconditionHolds(blob[c], lgen[p])
               /\ blob[c].generation < MaxGeneration
               /\ blob' = [blob EXCEPT ![c] = Uploaded(@, OtherWriterData(c, @.data))]
        /\ UNCHANGED <<pc, call, ldata, lgen, attempt, lret, dedupCache,
                       initialized, session, lockFile, log>>

NextRetry ==
    \/ /\ Len(log) < MaxRetryCalls
       /\ \/ CallAddToDatabase("p1")
          \/ CallIncrementDatabaseItemOccurrences("p1")
          \/ CallRemoveFromDatabaseByNormalized("p1")
          \/ CallAddToUserSelection("p1")
          \/ CallPopUserSelectionItem("p1")
          \/ CallAddToDiscards("p1")
          \/ CallIncrementDiscardedItemOccurrences("p1")
    \/ DbInitialize("p1")
    \/ DbDownload("p1")
    \/ DbUpload("p1")
    \/ DbRefresh("p1")
    \/ TextLoad("p1")
    \/ TextUpload("p1")
    \/ TextReload("p1")
    \/ Interfere

SpecRetry == InitRetry /\ [][NextRetry]_vars

(***************************************************************************)
(* SpecCorrupt: one client calling the stores, whose three blobs hold      *)
(* content that is no JSON array.                                          *)
(***************************************************************************)
MaxCorruptCalls == 2

InitCorrupt ==
    /\ blob \in {[c \in Blobs |->
                    IF c = "pool" THEN AbsentBlob
                    ELSE [generation |-> 1, data |-> content]] :
                 content \in {NotJson, NotAnArray}}
    /\ NothingRunning

NextCorrupt ==
    \/ /\ Len(log) < MaxCorruptCalls
       /\ \/ CallAddToDatabase("p1")
          \/ CallExistsInDatabase("p1")
          \/ CallAddToUserSelection("p1")
          \/ CallPopUserSelectionItem("p1")
          \/ CallAddToDiscards("p1")
          \/ CallExistsInDiscards("p1")
    \/ DbInitialize("p1")
    \/ DbDownload("p1")
    \/ DbUpload("p1")
    \/ DbRefresh("p1")
    \/ DbExists("p1")
    \/ TextLoad("p1")
    \/ TextUpload("p1")
    \/ TextExists("p1")

SpecCorrupt == InitCorrupt /\ [][NextCorrupt]_vars

\* what the accepted corpus and the rejected pile hold at the start: nothing, a
\* row, or a row whose normalized text is made of stop-words only
SeedRows ==
    {<<>>, <<StoredRow>>, <<[StoredRow EXCEPT !.normalized = NPlayerDrinks]>>}

InitExists ==
    /\ blob \in {[c \in Blobs |->
                    IF c \in {"db", "disc"} /\ rows # <<>>
                    THEN [generation |-> 1, data |-> rows] ELSE AbsentBlob] :
                 rows \in SeedRows}
    /\ NothingRunning

\* the reviewer keeps a row popped from the queue: add_to_database
ReviewerKeeps(p) ==
    \E n \in LookupNorms : Begin(p, "add_to_database", QueueRow(n), DbFirstStep(p))

\* the reviewer discards a row popped from the queue: add_to_discards
ReviewerDiscards(p) ==
    \E n \in LookupNorms : Begin(p, "add_to_discards", QueueRow(n), "load")

NextExists ==
    \E p \in Procs :
        \/ ReviewerKeeps(p)
        \/ CallRemoveFromDatabaseByNormalized(p)
        \/ CallExistsInDatabase(p)
        \/ DbInitialize(p)
        \/ DbDownload(p)
        \/ DbUpload(p)
        \/ DbRefresh(p)
        \/ DbExists(p)
        \/ ReviewerDiscards(p)
        \/ CallExistsInDiscards(p)
        \/ TextLoad(p)
        \/ TextUpload(p)
        \/ TextReload(p)
        \/ TextExists(p)

SpecExists == InitExists /\ [][NextExists]_vars

(***************************************************************************)
(* workflow.py: Workflow._select_and_remove_items on the raw-line pool.    *)
(* The pool blob's data are its non-empty lines.  SpecPool: two processes  *)
(* running workflows on one pool.                                          *)
(***************************************************************************)
\* the sequences of n distinct positions of 1..m, in any order
Draws(m, n) == {f \in [1..n -> 1..m] : \A i, j \in 1..n : i # j => f[i] # f[j]}

\* probabilistic_sample: the lists it can return (the weights decide how likely
\* each one is, none is excluded here)
probabilistic_sample(items, n) ==
    IF Len(items) <= n THEN {items}
    ELSE {[i \in 1..n |-> items[f[i]]] : f \in Draws(Len(items), n)}

\* selected_items, for a pool of `items` and a batch size x
SelectedItems(items, x) ==
    IF Len(items) < x THEN {items} ELSE probabilistic_sample(items, x)

RECURSIVE Remaining(_, _)
\* [item for item in items if item not in selected_items]
Remaining(items, selected) ==
    IF items = <<>> THEN <<>>
    ELSE IF \E k \in 1..Len(selected) : selected[k] = Head(items)
         THEN Remaining(Tail(items), selected)
         ELSE <<Head(items)>> \o Remaining(Tail(items), selected)

\* the pools a behaviour can start from: absent, or uploaded by the input page
PoolInits ==
    {AbsentBlob,
     [generation |-> 1, data |-> <<"l1", "l2", "l3">>],
     [generation |-> 1, data |-> <<"l1", "l2", "l1">>]}

InitPool ==
    /\ blob \in {[c \in Blobs |-> IF c = "pool" THEN b ELSE AbsentBlob] : b \in PoolInits}
    /\ NothingRunning

\* Workflow(stripped_file, x).run() begins
CallSelectAndRemoveItems(p) ==
    \E x \in 1..MaxX : Begin(p, "_select_and_remove_items", x, "pool_download")

\* downloadTextFile, the sampling, and the lines that stay
PoolDownload(p) ==
    /\ pc[p] = "pool_download"
    /\ UNCHANGED <<blob, dedupCache, initialized>>
    /\ \E selected_items \in SelectedItems(blob["pool"].data, call[p].arg) :
          PlanUpload(p, Remaining(blob["pool"].data, selected_items),
                     blob["pool"].generation, selected_items, "pool_upload")

\* an upload whose failure is swallowed: the selected lines are returned anyway
UploadFailureIgnored(selected_items) == [status |-> "returned", val |-> selected_items]

\* uploadTextFile raises when its precondition fails and nothing in
\* _select_and_remove_items catches it: no line is returned
UploadFailed(selected_items) == [status |-> "raised", val |-> <<>>]

\* uploadTextFile with self.current_generation: the selected lines are returned,
\* and go to cleaning, when it succeeds; when it fails the exception ends run()
PoolUpload(p) ==
    /\ pc[p] = "pool_upload"
    /\ UNCHANGED <<dedupCache, initialized>>
    /\ IF PreconditionHolds(blob["pool"], lgen[p])
       THEN /\ blob' = [blob EXCEPT !["pool"] = Uploaded(@, ldata[p])]
            /\ Finish(p, "returned", lret[p], 1)
       ELSE /\ UNCHANGED blob
            /\ Finish(p, UploadFailed(lret[p]).status, UploadFailed(lret[p]).val, 1)

NextPool ==
    \E p \in Procs :
        \/ CallSelectAndRemoveItems(p)
        \/ PoolDownload(p)
        \/ PoolUpload(p)

SpecPool == InitPool /\ [][NextPool]_vars

(***************************************************************************)
(* SpecSys: the pipeline and the reviewer's page on the three collections, *)
(* one handler at a time (each handler runs to its end before the next     *)
(* begins, so none of its conditional writes fails).                       *)
(***************************************************************************)
MaxSysSteps == 6

\* GlobalDatabaseStore.exists_in_database: the refreshed cache holds the key
ExistsInGlobal(b, normalized) ==
    build_dedup_key(normalized) \in DedupKeysOf(b["db"].data)

\* DiscardedItemsStore.exists_in_discards
ExistsInDiscards(b, normalized) == ExistsInRows(b["disc"].data, normalized)

\* DatabaseManager.exists_in_database
ExistsInDatabase(b, normalized) ==
    ExistsInGlobal(b, normalized) \/ ExistsInDiscards(b, normalized)

\* add_to_user_selection run to its end on the bucket b
AfterAddToUserSelection(b, item) ==
    IF ~IsComplete(item) \/ DuplicateIndex(b["sel"].data, item) > 0 THEN b
    ELSE [b EXCEPT !["sel"] = Uploaded(@, AddToUserSelectionData(@.data, item))]

\* add_to_global_database run to its end on the bucket b
AfterAddToGlobalDatabase(b, item) ==
    [b EXCEPT !["db"] = Uploaded(@, AddToDatabaseData(@.data, item))]

\* add_to_discards run to its end on the bucket b
AfterAddToDiscards(b, item) ==
    IF ~IsComplete(item) THEN b
    ELSE [b EXCEPT !["disc"] = Uploaded(@, AddToDiscardsData(@.data, item))]

RECURSIVE AfterBatch(_, _, _, _)
\* process_batch_items: item i is discarded when discard_i was ticked, else kept
AfterBatch(b, items, discard_actions, i) ==
    IF i > Len(items) THEN b
    ELSE AfterBatch(IF i \in discard_actions THEN AfterAddToDiscards(b, items[i])
                    ELSE AfterAddToGlobalDatabase(b, items[i]),
                    items, discard_actions, i + 1)

\* an entry of the log for a handler that ran to its end on the bucket `bucket`
Handled(p, kind, arg, val, bucket) ==
    [p |-> p, kind |-> kind, arg |-> arg, status |-> "returned", val |-> val,
     uploads |-> 0, alone |-> TRUE, before |-> <<>>, bucket |-> bucket]

\* Workflow._process_single_item from the cleaning service's answer on: the
\* cleaned line normalizes to n
ProcessSingleItem ==
    \E n \in Norms :
        LET exists == ExistsInDatabase(blob, n)
        IN  /\ Len(log) < MaxSysSteps
            /\ blob' = IF exists THEN blob
                       ELSE AfterAddToUserSelection(blob, PipelineItem(n))
            /\ log' = Append(log, Handled("p1", "_process_single_item", n,
                                          <<exists>>, blob))
            /\ UNCHANGED <<pc, call, ldata, lgen, attempt, lret, dedupCache,
                           initialized, session, lockFile>>

\* SelectionService.fetch_batch_items: pops up to batch_size rows into the page
FetchBatchItems ==
    \E batch_size \in 1..Len(blob["sel"].data) :
        /\ Len(log) < MaxSysSteps
        /\ session = <<>>
        /\ blob' = [blob EXCEPT !["sel"] =
                      [generation |-> @.generation + batch_size,
                       data |-> SubSeq(@.data, batch_size + 1, Len(@.data))]]
        /\ session' = SubSeq(blob["sel"].data, 1, batch_size)
        /\ UNCHANGED lockFile
        /\ log' = Append(log, Handled("p2", "fetch_batch_items", batch_size,
                                      session', blob))
        /\ UNCHANGED <<pc, call, ldata, lgen, attempt, lret, dedupCache, initialized>>

\* SelectionService.process_batch_items: Keep or Discard for every row held
ProcessBatchItems ==
    \E discard_actions \in SUBSET (1..Len(session)) :
        /\ Len(log) < MaxSysSteps
        /\ session # <<>>
        /\ blob' = AfterBatch(blob, session, discard_actions, 1)
        /\ session' = <<>>
        /\ UNCHANGED lockFile
        /\ log' = Append(log, Handled("p2", "process_batch_items", session,
                                      <<discard_actions>>, blob))
        /\ UNCHANGED <<pc, call, ldata, lgen, attempt, lret, dedupCache, initialized>>

NextSys == ProcessSingleItem \/ FetchBatchItems \/ ProcessBatchItems

SpecSys == Init /\ [][NextSys]_vars

(***************************************************************************)
(* SpecRun: Workflow.run, by two processes on one pool.  The selection is  *)
(* the steps of SpecPool.  The selected lines are then processed together  *)
(* (asyncio.gather), so they finish in any order.  The requests of         *)
(* call_llm touch no store, and what follows the reply (normalize, the     *)
(* duplicate check, the add to the queue) runs without a suspension point, *)
(* so one line is one step.  The accepted corpus holds a row.              *)
(***************************************************************************)
max_retries == 3

\* the requests of one call_llm that the service may fail in a row
MaxFailures == 4

\* how many requests of one call_llm fail before one is answered: none, all
\* but the last one it may send, or more than it sends
FailureCounts == {0, max_retries, MaxFailures}

\* normalize(cleaned).strip() for what the cleaning service replied: nothing
\* (a blank reply, or one without word characters), or a text
LlmReplies == {<<>>, NHelloWorld, NFoo}

\* the pools a run can start from: absent, or two lines
RunPools == {AbsentBlob, [generation |-> 1, data |-> <<"l1", "l2">>]}

InitRun ==
    /\ blob \in {[c \in Blobs |->
                    CASE c = "pool" -> b
                      [] c = "db"   -> [generation |-> 1, data |-> <<StoredRow>>]
                      [] OTHER      -> AbsentBlob] : b \in RunPools}
    /\ NothingRunning

\* the run p is in: the log entry of its selection, 0 when it is in no run
RunOf(p) ==
    LET open == {i \in 1..Len(log) :
                    /\ log[i].p = p
                    /\ log[i].kind = "_select_and_remove_items"
                    /\ ~\E r \in 1..Len(log) : log[r].kind = "run" /\ log[r].arg = i}
    IN  IF open = {} THEN 0 ELSE CHOOSE i \in open : TRUE

\* the log entries of the lines of run i that cleaning is done with
ResultsOf(i) ==
    {e \in 1..Len(log) : log[e].kind = "_process_single_item" /\ log[e].arg[1] = i}

\* Workflow(...).run() begins: _select_and_remove_items
RunBegins(p) == RunOf(p) = 0 /\ CallSelectAndRemoveItems(p)

\* a retry loop that goes on after the last retry
RetryAlways(sent) == TRUE

\* call_llm: `if attempt < max_retries:` sleep and continue, else raise
RetryAllowed(sent) == sent < max_retries

\* call_llm's loop from `attempt` on, when the first `failures` requests fail:
\* the requests it sends and whether it raises
RECURSIVE call_llm(_, _)
call_llm(sent, failures) ==
    IF sent >= failures
    THEN [requests |-> sent + 1, raised |-> FALSE]
    ELSE IF RetryAllowed(sent)
         THEN call_llm(sent + 1, failures)
         ELSE [requests |-> sent + 1, raised |-> TRUE]

\* an exception of call_llm that nothing catches: it leaves gather and run()
RaisedEscapes(val) == [success |-> val, escaped |-> TRUE]

\* _process_single_item: `except Exception as e:` around the whole body; the
\* line is reported as failed
RaisedIsCaught(val) == [success |-> val, escaped |-> FALSE]

\* a pipeline that lets the original line stand in for the cleaned text when
\* call_llm raised
CleanedOrOriginal(raised, line) == IF raised THEN {<<line>>} ELSE LlmReplies

\* _process_single_item: the normalized text the line goes on with; there is
\* none when call_llm raised (the exception leaves the body of the try)
CleanedTexts(raised, line) == IF raised THEN {<<>>} ELSE LlmReplies

\* the inner try of _process_single_item: `exists` is the answer of
\* exists_in_database, and False when it raised (`except Exception as e:`)
ExistsAfterCheck(check) == IF check = "raised" THEN FALSE ELSE check = "present"

\* the outcomes of exists_in_database for a text: its answer, or an exception
\* (the store cannot be reached)
CheckOutcomes(b, normalized) ==
    {IF ExistsInDatabase(b, normalized) THEN "present" ELSE "not_present", "raised"}

\* the stages _process_single_item went through for a line, in the order of its
\* statements
StagesOf(raised, normalized, check) ==
    <<"call_llm">>
        \o (IF raised THEN <<>> ELSE <<"normalize">>)
        \o (IF normalized = <<>> THEN <<>> ELSE <<"exists_in_database">>)
        \o (IF normalized = <<>> \/ ExistsAfterCheck(check) THEN <<>>
            ELSE <<"add_to_user_selection">>)

\* _process_single_item for line j of p's run: call_llm, then normalize, the
\* duplicate check and the add to the queue; success is False when call_llm
\* raised and for an empty cleaned or normalized text
ProcessSelectedItem(p) ==
    LET i == RunOf(p)
    IN  /\ i > 0
        /\ log[i].status = "returned"
        /\ \E j \in 1..Len(log[i].val) :
              /\ ~\E e \in ResultsOf(i) : log[e].arg[2] = j
              /\ \E failures \in FailureCounts :
                    LET llm == call_llm(0, failures)
                    IN  \E normalized \in CleanedTexts(llm.raised, log[i].val[j]) :
                        \E check \in IF normalized = <<>> THEN {"none"}
                                      ELSE CheckOutcomes(blob, normalized) :
                          LET item  == [default |-> <<log[i].val[j]>>,
                                        cleaned |-> <<"clean">>,
                                        normalized |-> normalized, occurrences |-> 1]
                              added == check # "none" /\ ~ExistsAfterCheck(check)
                              how   == IF llm.raised THEN RaisedIsCaught(<<FALSE>>)
                                       ELSE [success |-> <<check # "none">>,
                                             escaped |-> FALSE]
                              after == IF added
                                       THEN AfterAddToUserSelection(blob, item)
                                       ELSE blob
                          IN  /\ blob' = after
                              /\ log' = Append(log,
                                    [p |-> p, kind |-> "_process_single_item",
                                     arg |-> <<i, j>>, status |-> "returned",
                                     val |-> how.success, uploads |-> 0,
                                     alone |-> FALSE, before |-> <<>>, bucket |-> blob,
                                     after |-> after,
                                     requests |-> llm.requests, raised |-> llm.raised,
                                     escaped |-> how.escaped,
                                     normalized |-> normalized, check |-> check,
                                     stages |-> StagesOf(llm.raised, normalized,
                                                         check)])
        /\ UNCHANGED <<pc, call, ldata, lgen, attempt, lret, dedupCache, initialized,
                       session, lockFile>>

\* a classification that takes any failure for a failure of all
StatusAnyFailed(successful, failed) ==
    IF failed > 0 THEN "all_failed" ELSE "success"

\* Workflow.run: the status for `successful` and `failed` results
StatusOf(successful, failed) ==
    IF failed = successful + failed THEN "all_failed"
    ELSE IF failed > 0 THEN "partial_success"
    ELSE "success"

\* Workflow.run returns: <<status, processed, failed>>
RunReturns(p) ==
    LET i          == RunOf(p)
        items      == log[i].val
        results    == ResultsOf(i)
        successful == Cardinality({e \in results : log[e].val = <<TRUE>>})
        failed     == Cardinality(results) - successful
        escaped    == \E e \in results : log[e].escaped
    IN  /\ i > 0
        /\ log[i].status # "pending"
        /\ log[i].status = "returned" => escaped \/ Cardinality(results) = Len(items)
        /\ log' = Append(log, Handled(p, "run", i,
                      IF log[i].status = "raised" \/ escaped THEN <<"error", 0, 0>>
                      ELSE IF items = <<>> THEN <<"no_items", 0, 0>>
                      ELSE <<StatusOf(successful, failed), successful, failed>>,
                      blob))
        /\ UNCHANGED <<blob, pc, call, ldata, lgen, attempt, lret, dedupCache,
                       initialized, session, lockFile>>

NextRun ==
    \E p \in Procs :
        \/ RunBegins(p)
        \/ PoolDownload(p)
        \/ PoolUpload(p)
        \/ ProcessSelectedItem(p)
        \/ RunReturns(p)

SpecRun == InitRun /\ [][NextRun]_vars

(***************************************************************************)
(* SpecRace: a removal and an insert on an accepted corpus that holds rows *)
(***************************************************************************)
FooRow == [default |-> <<"raw">>, cleaned |-> <<"clean">>,
           normalized |-> NFoo, occurrences |-> 1]

\* the corpus before the two calls
RaceCorpora == {<<StoredRow>>, <<FooRow, StoredRow>>, <<StoredRow, StoredRow>>}

InitRace ==
    /\ \E data \in RaceCorpora :
          blob = [c \in Blobs |-> IF c = "db" THEN [generation |-> 1, data |-> data]
                                  ELSE AbsentBlob]
    /\ NothingRunning

NextRace ==
    \E p \in Procs :
        \/ CallRemoveFromDatabaseByNormalized(p)
        \/ CallAddToDatabase(p)
        \/ DbInitialize(p)
        \/ DbDownload(p)
        \/ DbUpload(p)
        \/ DbRefresh(p)

SpecRace == InitRace /\ [][NextRace]_vars

(***************************************************************************)
(* SpecItems: one client handing the three stores any item, complete or    *)
(* not, one call after the other.                                          *)
(***************************************************************************)
MaxItemCalls == 2

\* the items a caller can pass: each text field missing, empty or filled
AnyItems ==
    UNION {[F -> {<<>>, NFoo}] : F \in SUBSET {"default", "cleaned", "normalized"}}

\* a call of the store method `kind` with the item, run to its end
ItemCall(kind, item, after) ==
    /\ Len(log) < MaxItemCalls
    /\ blob' = after
    /\ log' = Append(log, Handled("p1", kind, item, <<>>, blob))
    /\ UNCHANGED <<pc, call, ldata, lgen, attempt, lret, dedupCache, initialized,
                   session, lockFile>>

AddToUserSelectionAny ==
    \E item \in AnyItems :
        ItemCall("add_to_user_selection", item, AfterAddToUserSelection(blob, item))

AddToDiscardsAny ==
    \E item \in AnyItems :
        ItemCall("add_to_discards", item, AfterAddToDiscards(blob, item))

AddToDatabaseAny ==
    \E item \in AnyItems :
        ItemCall("add_to_database", item, AfterAddToGlobalDatabase(blob, item))

NextItems == AddToUserSelectionAny \/ AddToDiscardsAny \/ AddToDatabaseAny

SpecItems == Init /\ [][NextItems]_vars

(***************************************************************************)
(* SpecFifo: one client adding to and popping from the pending queue, one  *)
(* call after the other (with one client no conditional write fails).      *)
(***************************************************************************)
MaxFifoCalls == 7

\* pop_user_selection_item run to its end on the bucket b
AfterPopUserSelectionItem(b) ==
    IF Downloaded(b["sel"]).data = <<>> THEN b
    ELSE [b EXCEPT !["sel"] = Uploaded(@, Popped(Downloaded(@).data).rest)]

AddToUserSelectionDone ==
    \E item \in PipelineItems :
        /\ Len(log) < MaxFifoCalls
        /\ blob' = AfterAddToUserSelection(blob, item)
        /\ log' = Append(log, Handled("p1", "add_to_user_selection", item, <<>>,
                                      blob))
        /\ UNCHANGED <<pc, call, ldata, lgen, attempt, lret, dedupCache,
                       initialized, session, lockFile>>

PopUserSelectionItemDone ==
    /\ Len(log) < MaxFifoCalls
    /\ blob' = AfterPopUserSelectionItem(blob)
    /\ log' = Append(log, Handled("p1", "pop_user_selection_item", <<>>,
                                  IF Downloaded(blob["sel"]).data = <<>> THEN <<>>
                                  ELSE <<Popped(Downloaded(blob["sel"]).data).item>>,
                                  blob))
    /\ UNCHANGED <<pc, call, ldata, lgen, attempt, lret, dedupCache, initialized,
                   session, lockFile>>

NextFifo == AddToUserSelectionDone \/ PopUserSelectionItemDone

SpecFifo == Init /\ [][NextFifo]_vars

(***************************************************************************)
(* prefetcher.py: main's loop, by one process that holds the lock file.   *)
(* The Workflow it starts as a subprocess runs to its end before the loop  *)
(* goes on (subprocess.run waits), so a batch is one step; the accepted    *)
(* corpus and the rejected pile are what the bucket holds then.  main's    *)
(* locals are kept in its entry of the log: currentCount, x and the        *)
(* multiplier, in thousandths.                                             *)
(***************************************************************************)
MaxTarget == 2

MaxBatches == 2

\* targetCapacity = 10 when the command line gives none
DefaultTarget == 10

\* multiplier = 3.0, in thousandths
InitialMultiplier == 3000

\* the normalized texts a batch can bring to the queue
BatchTexts == {NHelloWorld, NFoo}

\* the queues and the pools the prefetcher can start on
PrefetchQueues == {AbsentBlob, [generation |-> 1, data |-> <<QueueRow(NHelloWorld)>>]}

PrefetchPools ==
    {AbsentBlob,
     [generation |-> 1, data |-> <<"l1", "l2">>],
     [generation |-> 1, data |-> <<"l1", "l2", "l3", "l4">>]}

InitPrefetch ==
    /\ blob \in {[c \in Blobs |->
                    CASE c = "sel"  -> q
                      [] c = "pool" -> b
                      [] OTHER      -> AbsentBlob] :
                 q \in PrefetchQueues, b \in PrefetchPools}
    /\ NothingRunning

\* a lock that every process takes: the file is never found
LockNeverFound(lock) == FALSE

\* open(paths["lock"], "x") raises FileExistsError: the file is there
LockFound(lock) == lock = "present"

\* main begins (each process runs it once): targetCapacity from the command
\* line; then the lock file is created, or main returns because the file
\* exists (FileExistsError) or cannot be created (any other exception)
PrefetcherMain(p) ==
    \E targetCapacity \in (1..MaxTarget) \cup {DefaultTarget},
       created \in IF LockFound(lockFile) THEN {FALSE} ELSE BOOLEAN :
        /\ pc[p] = "idle"
        /\ \A i \in 1..Len(log) : ~(log[i].kind = "main" /\ log[i].p = p)
        /\ lockFile' = IF created THEN "present" ELSE lockFile
        /\ pc' = [pc EXCEPT ![p] = IF created THEN "count" ELSE "idle"]
        /\ call' = [call EXCEPT ![p] = IF created
                                       THEN [kind |-> "main", arg |-> targetCapacity]
                                       ELSE NoCall]
        /\ log' = Append(log,
              [p |-> p, kind |-> "main", arg |-> targetCapacity,
               status |-> IF created THEN "pending" ELSE "returned",
               val |-> IF created THEN <<>> ELSE <<"no_lock">>,
               uploads |-> 0, alone |-> TRUE,
               before |-> <<>>, currentCount |-> 0, x |-> 0,
               multiplier |-> InitialMultiplier, found |-> lockFile])
        /\ UNCHANGED <<blob, ldata, lgen, attempt, lret, dedupCache, initialized,
                       session>>

\* countUserSelection: the rows get_user_selection_count loads, and 0 when it
\* raises (`except Exception: return 0`)
countUserSelection(b) == {Len(Downloaded(b["sel"]).data), 0}

\* an exit that leaves the lock file where it is
LockLeft(lock) == lock

\* `finally`: os.remove(paths["lock"]) when the file exists
LockRemoved(lock) == "absent"

\* main leaves its loop (break, or an exception), and `finally` removes the
\* lock file
Break(p, why) ==
    /\ pc' = [pc EXCEPT ![p] = "idle"]
    /\ call' = [call EXCEPT ![p] = NoCall]
    /\ lockFile' = LockRemoved(lockFile)
    /\ log' = [log EXCEPT ![Pending(p)] =
                  [@ EXCEPT !.status = IF why = "exception" THEN "raised"
                                       ELSE "returned",
                            !.val = <<why>>]]

\* the top of the loop: currentCount = countUserSelection(), and break when it
\* is targetCapacity or more
CountStep(p) ==
    /\ pc[p] = "count"
    /\ \E currentCount \in countUserSelection(blob) :
          IF currentCount >= call[p].arg
          THEN Break(p, "target")
          ELSE /\ pc' = [pc EXCEPT ![p] = "run"]
               /\ log' = [log EXCEPT ![Pending(p)].currentCount = currentCount]
               /\ UNCHANGED <<call, lockFile>>
    /\ UNCHANGED <<blob, ldata, lgen, attempt, lret, dedupCache, initialized,
                   session>>

\* x = max(deficit, int(math.ceil(deficit * multiplier)))
Overfetch(deficit, multiplier) ==
    LET ceil == (deficit * multiplier + 999) \div 1000
    IN  IF deficit > ceil THEN deficit ELSE ceil

RECURSIVE AfterAdds(_, _)
\* the bucket after the pipeline handled the lines cleaned to `texts`: each is
\* added to the queue unless the duplicate check finds it
AfterAdds(b, texts) ==
    IF texts = {} THEN b
    ELSE LET n == CHOOSE t \in texts : TRUE
         IN  AfterAdds(IF ExistsInDatabase(b, n) THEN b
                       ELSE AfterAddToUserSelection(b, PipelineItem(n)),
                       texts \ {n})

\* a check of the pool that lets every content through
PoolNeverBlank(b) == FALSE

\* `if not content.strip(): break`: the pool holds no line (a missing object
\* downloads as the empty text)
PoolIsBlank(b) == b["pool"].data = <<>>

\* subprocess.run raised: sleep and `continue`
StartFails(p) ==
    /\ pc[p] = "run"
    /\ ~PoolIsBlank(blob)
    /\ pc' = [pc EXCEPT ![p] = "count"]
    /\ UNCHANGED <<blob, call, log, lockFile>>

\* subprocess.run of workflow.py with batch size x: the Workflow takes its
\* lines out of the pool and brings what it cleaned to the queue
RunsBatch(p) ==
    LET frame   == log[Pending(p)]
        deficit == call[p].arg - frame.currentCount
        x       == Overfetch(deficit, frame.multiplier)
        batches == Cardinality({i \in 1..Len(log) : log[i].kind = "subprocess.run"})
    IN  /\ pc[p] = "run"
        /\ ~PoolIsBlank(blob)
        /\ batches < MaxBatches
        /\ \E selected_items \in SelectedItems(blob["pool"].data, x),
              texts \in SUBSET BatchTexts :
              /\ Cardinality(texts) <= Len(selected_items)
              /\ blob' = AfterAdds(
                    [blob EXCEPT !["pool"] =
                        Uploaded(@, Remaining(@.data, selected_items))],
                    texts)
              /\ log' = Append(
                    [log EXCEPT ![Pending(p)].x = x],
                    [p |-> p, kind |-> "subprocess.run", arg |-> x,
                     status |-> "returned", val |-> selected_items,
                     uploads |-> 0, alone |-> TRUE, before |-> <<>>,
                     bucket |-> blob, targetCapacity |-> call[p].arg,
                     currentCount |-> frame.currentCount,
                     multiplier |-> frame.multiplier, afterCount |-> 0,
                     adapted |-> 0])
        /\ pc' = [pc EXCEPT ![p] = "measure"]
        /\ UNCHANGED <<call, lockFile>>

\* the rest of one pass of the loop up to subprocess.run: break when
\* workflow.py is missing, when the pool cannot be read or is blank; else run
\* the Workflow with batch size x, which may also fail to start
RunStep(p) ==
    /\ pc[p] = "run"
    /\ \/ Break(p, "no_workflow") /\ UNCHANGED blob
       \/ Break(p, "no_pool") /\ UNCHANGED blob
       \/ StartFails(p)
       \/ RunsBatch(p)
    /\ UNCHANGED <<ldata, lgen, attempt, lret, dedupCache, initialized, session>>

\* the multiplier after a batch of size x that added `added` rows
Adapted(multiplier, added, x) ==
    IF 4 * added < x
    THEN IF multiplier * 2 < 10000 THEN multiplier * 2 ELSE 10000
    ELSE IF 4 * added > 3 * x /\ multiplier > 2000
         THEN IF (multiplier * 8) \div 10 > 2000 THEN (multiplier * 8) \div 10
              ELSE 2000
         ELSE multiplier

\* the batch p ran last
LastBatch(p) ==
    CHOOSE i \in 1..Len(log) :
        /\ log[i].kind = "subprocess.run" /\ log[i].p = p
        /\ \A j \in (i + 1)..Len(log) : ~(log[j].kind = "subprocess.run" /\ log[j].p = p)

\* afterCount = countUserSelection(), added = max(0, afterCount - beforeCount),
\* and the multiplier follows the yield
MeasureStep(p) ==
    /\ pc[p] = "measure"
    /\ \E afterCount \in countUserSelection(blob) :
          LET frame == log[Pending(p)]
              added == IF afterCount > frame.currentCount
                       THEN afterCount - frame.currentCount ELSE 0
          IN  log' = [log EXCEPT
                        ![Pending(p)].multiplier =
                            Adapted(frame.multiplier, added, frame.x),
                        ![LastBatch(p)].afterCount = afterCount,
                        ![LastBatch(p)].adapted =
                            Adapted(frame.multiplier, added, frame.x)]
    /\ pc' = [pc EXCEPT ![p] = "count"]
    /\ UNCHANGED <<blob, call, ldata, lgen, attempt, lret, dedupCache, initialized,
                   session, lockFile>>

\* an exception leaves the loop (none of its handlers catches it): `finally`
\* runs, and the process ends with the traceback
LoopRaises(p) ==
    /\ pc[p] \in {"count", "run", "measure"}
    /\ Break(p, "exception")
    /\ UNCHANGED <<blob, ldata, lgen, attempt, lret, dedupCache, initialized,
                   session>>

NextPrefetch ==
    \/ PrefetcherMain("p1")
    \/ CountStep("p1")
    \/ RunStep("p1")
    \/ MeasureStep("p1")
    \/ LoopRaises("p1")

SpecPrefetch == InitPrefetch /\ [][NextPrefetch]_vars

\* the loop goes on while it can (the process is not stopped), and
\* subprocess.run does not fail to start forever
SpecPrefetchFair ==
    /\ SpecPrefetch
    /\ WF_vars(CountStep("p1"))
    /\ WF_vars(RunStep("p1"))
    /\ WF_vars(MeasureStep("p1"))
    /\ SF_vars(RunsBatch("p1") /\ UNCHANGED <<ldata, lgen, attempt, lret, dedupCache,
                                               initialized, session, lockFile>>)

(***************************************************************************)
(* SpecLock: two prefetcher processes started in one directory (by the     *)
(* reviewer's page, triggerTopUpIfLow, or by hand), in any interleaving.   *)
(***************************************************************************)
\* an empty queue, and a pool of two lines
InitLock ==
    /\ blob = [c \in Blobs |->
                 IF c = "pool" THEN [generation |-> 1, data |-> <<"l1", "l2">>]
                 ELSE AbsentBlob]
    /\ NothingRunning

NextLock ==
    \E p \in Procs :
        \/ PrefetcherMain(p)
        \/ CountStep(p)
        \/ RunStep(p)
        \/ MeasureStep(p)
        \/ LoopRaises(p)

SpecLock == InitLock /\ [][NextLock]_vars

(***************************************************************************)
(* probability_sampler.py: probabilistic_sample, one draw a step.  An item  *)
(* is the position it has in the pool; of a weight only whether it is zero *)
(* or positive matters to which items a draw can return (renormalizing     *)
(* keeps both).  custom_curve_pdf gives zero for a length far from the     *)
(* mean.  ldata holds remaining_items with remaining_weights, lret holds   *)
(* selected_items.                                                         *)
(***************************************************************************)
MaxPool == 3

\* the weight of a length the curve gives zero, and of any other length
WeightValues == {0, 1}

CallProbabilisticSample(p) ==
    \E m \in 0..MaxPool, n \in 1..MaxPool :
        \E weights \in [1..m -> WeightValues] :
            Begin(p, "probabilistic_sample",
                  [items |-> [i \in 1..m |-> i], weights |-> weights, n |-> n],
                  "weights")

RECURSIVE SumOf(_)
\* sum(weights)
SumOf(weights) == IF weights = <<>> THEN 0 ELSE Head(weights) + SumOf(Tail(weights))

\* random.sample(items, n): n items of distinct positions, in any order
RandomSample(items, n) ==
    {[i \in 1..n |-> items[f[i]]] : f \in Draws(Len(items), n)}

\* the sequence without its element at idx: list.pop(idx)
WithoutIndex(seq, idx) == [i \in 1..(Len(seq) - 1) |-> IF i < idx THEN seq[i] ELSE seq[i + 1]]

\* the start of probabilistic_sample: the copy of a pool that is not larger
\* than n, random.sample when the weights sum to zero, else the loop
SampleStart(p) ==
    LET items   == call[p].arg.items
        weights == call[p].arg.weights
        n       == call[p].arg.n
    IN  /\ pc[p] = "weights"
        /\ UNCHANGED <<blob, dedupCache, initialized>>
        /\ IF Len(items) <= n THEN End(p, "returned", items)
           ELSE IF SumOf(weights) = 0
                THEN \E sample \in RandomSample(items, n) : End(p, "returned", sample)
                ELSE /\ pc' = [pc EXCEPT ![p] = "draw"]
                     /\ ldata' = [ldata EXCEPT ![p] =
                                     [i \in 1..Len(items) |->
                                         [item |-> items[i], weight |-> weights[i]]]]
                     /\ lret' = [lret EXCEPT ![p] = <<>>]
                     /\ UNCHANGED <<call, lgen, attempt, log, session, lockFile>>

\* random.choices(range(len(remaining_items)), weights=remaining_weights, k=1):
\* an index of positive weight; when the weights sum to zero it raises
\* ValueError (Python 3.9 and later) or answers the last index (before 3.9)
Choices(remaining) ==
    IF SumOf([i \in 1..Len(remaining) |-> remaining[i].weight]) > 0
    THEN {i \in 1..Len(remaining) : remaining[i].weight > 0}
    ELSE {0, Len(remaining)}

\* one pass of `for _ in range(min(n, len(items)))`, and the return after the
\* last one
SampleDraw(p) ==
    /\ pc[p] = "draw"
    /\ UNCHANGED <<blob, dedupCache, initialized>>
    /\ IF Len(lret[p]) = call[p].arg.n \/ ldata[p] = <<>>
       THEN End(p, "returned", lret[p])
       ELSE \E chosen_idx \in Choices(ldata[p]) :
               IF chosen_idx = 0 THEN End(p, "raised", <<>>)
               ELSE /\ lret' = [lret EXCEPT ![p] = Append(@, ldata[p][chosen_idx].item)]
                    /\ ldata' = [ldata EXCEPT ![p] = WithoutIndex(@, chosen_idx)]
                    /\ UNCHANGED <<pc, call, lgen, attempt, log, session, lockFile>>

NextSample ==
    \/ CallProbabilisticSample("p1")
    \/ SampleStart("p1")
    \/ SampleDraw("p1")

SpecSample == Init /\ [][NextSample]_vars

(***************************************************************************)
(* text_utils.py on characters: normalize, and build_dedup_key as          *)
(* BuildDedupKey.  A text is a sequence of characters, named by strings:   *)
(* letters, " " and TAB (whitespace), "." (punctuation), I_DOT (U+0130,    *)
(* the capital I with a dot above) and DOT_ABOVE (U+0307, the combining    *)
(* dot, which is neither a word character nor whitespace).                 *)
(***************************************************************************)
MaxAtoms == 4

\* the pieces the texts are made of
Atoms == {<<"P", "l", "a">>, <<"y", "e", "r">>, <<"x">>, <<" ">>, <<"TAB">>, <<".">>,
          <<"I_DOT">>}

RECURSIVE TextsOf(_)
\* the texts of at most k pieces
TextsOf(k) ==
    IF k = 0 THEN {<<>>}
    ELSE LET shorter == TextsOf(k - 1)
         IN  shorter \cup {a \o t : a \in Atoms, t \in shorter}

\* \s
IsSpace(c) == c \in {" ", "TAB"}

\* \w
IsWordChar(c) == c \notin {" ", "TAB", ".", "DOT_ABOVE"}

\* [^\w\s] does not match c
IsWordOrSpace(c) == IsWordChar(c) \/ IsSpace(c)

\* normalize: re.sub(r'[^\w\s]', '', text)
normalize(text) == SelectSeq(text, IsWordOrSpace)

\* str.lower() of one character: U+0130 becomes "i" followed by U+0307
LowerChar(c) ==
    CASE c = "P"     -> <<"p">>
      [] c = "I_DOT" -> <<"i", "DOT_ABOVE">>
      [] OTHER       -> <<c>>

RECURSIVE LowerChars(_)
\* text.lower()
LowerChars(text) ==
    IF text = <<>> THEN <<>> ELSE LowerChar(Head(text)) \o LowerChars(Tail(text))

\* a comparison that tells the cases apart
FoldExact(c) == c

\* the character c as re.IGNORECASE compares it
Fold(c) ==
    CASE c = "P"     -> "p"
      [] c = "I_DOT" -> "i"
      [] OTHER       -> c

\* (?:player|drinks)
StopWords == {<<"p", "l", "a", "y", "e", "r">>, <<"d", "r", "i", "n", "k", "s">>}

RECURSIVE RunLength(_)
\* the length of the run of word characters the text begins with
RunLength(text) ==
    IF text = <<>> \/ ~IsWordChar(Head(text)) THEN 0 ELSE 1 + RunLength(Tail(text))

RECURSIVE SubStopWords(_)
\* re.sub(r"\b(?:player|drinks)\b", " ", text, flags=re.IGNORECASE)
SubStopWords(text) ==
    IF text = <<>> THEN <<>>
    ELSE IF ~IsWordChar(Head(text)) THEN <<Head(text)>> \o SubStopWords(Tail(text))
    ELSE LET n    == RunLength(text)
             word == SubSeq(text, 1, n)
         IN  (IF [i \in 1..n |-> Fold(word[i])] \in StopWords THEN <<" ">> ELSE word)
             \o SubStopWords(SubSeq(text, n + 1, Len(text)))

RECURSIVE SubSpaces(_)
\* re.sub(r"\s+", " ", text)
SubSpaces(text) ==
    IF text = <<>> THEN <<>>
    ELSE IF ~IsSpace(Head(text)) THEN <<Head(text)>> \o SubSpaces(Tail(text))
    ELSE IF Len(text) > 1 /\ IsSpace(text[2]) THEN SubSpaces(Tail(text))
    ELSE <<" ">> \o SubSpaces(Tail(text))

RECURSIVE StripText(_)
\* text.strip()
StripText(text) ==
    IF text = <<>> THEN <<>>
    ELSE IF IsSpace(Head(text)) THEN StripText(Tail(text))
    ELSE IF IsSpace(text[Len(text)]) THEN StripText(SubSeq(text, 1, Len(text) - 1))
    ELSE text

\* build_dedup_key(normalized_text)
BuildDedupKey(normalized_text) ==
    LET text == StripText(normalized_text)
    IN  IF text = <<>> THEN <<>>
        ELSE LowerChars(StripText(SubSpaces(SubStopWords(text))))

\* build_dedup_key(normalize(t)), and the same applied to what it gave
KeyOfText(p) ==
    /\ log = <<>>
    /\ \E t \in TextsOf(MaxAtoms) :
          LET key == BuildDedupKey(normalize(t))
          IN  log' = Append(log, Handled(p, "build_dedup_key", t,
                                         <<key, BuildDedupKey(normalize(key))>>,
                                         blob))
    /\ UNCHANGED <<blob, pc, call, ldata, lgen, attempt, lret, dedupCache,
                   initialized, session, lockFile>>

MaxPairAtoms == 3

\* the pieces of the normalized texts that are compared: a stop-word, a letter
\* in both cases, whitespace
PairAtoms == {<<"P", "l", "a", "y", "e", "r">>, <<"P">>, <<"p">>, <<" ">>, <<"TAB">>}

RECURSIVE PairTextsOf(_)
PairTextsOf(k) ==
    IF k = 0 THEN {<<>>}
    ELSE LET shorter == PairTextsOf(k - 1)
         IN  shorter \cup {a \o t : a \in PairAtoms, t \in shorter}

\* build_dedup_key of two normalized texts (the comparison is symmetric: the
\* second text is the shorter one)
KeysOfPair(p) ==
    /\ log = <<>>
    /\ \E t1 \in PairTextsOf(MaxPairAtoms), t2 \in PairTextsOf(MaxPairAtoms - 1) :
          log' = Append(log, Handled(p, "build_dedup_key_pair",
                                     <<normalize(t1), normalize(t2)>>,
                                     <<BuildDedupKey(normalize(t1)),
                                       BuildDedupKey(normalize(t2))>>,
                                     blob))
    /\ UNCHANGED <<blob, pc, call, ldata, lgen, attempt, lret, dedupCache,
                   initialized, session, lockFile>>

NextKey == KeyOfText("p1") \/ KeysOfPair("p1")

SpecKey == Init /\ [][NextKey]_vars

(***************************************************************************)
(* Properties of the store layer                                           *)
(***************************************************************************)
KeyOfArg(e) == build_dedup_key(NormOf(e.arg))

KeysOfRows(data) == {build_dedup_key(NormOf(data[i])) : i \in 1..Len(data)}

\* every call made so far is of one of the kinds, and has returned
OnlyReturned(kinds) ==
    /\ log # <<>>
    /\ \A i \in 1..Len(log) : log[i].kind \in kinds /\ log[i].status = "returned"

\* the calls made so far have pairwise distinct, non-empty dedup keys
DistinctKeys ==
    /\ \A i \in 1..Len(log) : KeyOfArg(log[i]) # <<>>
    /\ \A i, j \in 1..Len(log) : i # j => KeyOfArg(log[i]) # KeyOfArg(log[j])

\* C1: when processes call add_to_database concurrently with items of distinct
\* non-empty dedup keys against the absent corpus blob, then once all the calls
\* have returned the blob holds one row per call, each of the items with
\* occurrences = 1 (no lost update), for every interleaving of the downloads
\* and conditional uploads.
C1_NoLostUpdate ==
    (OnlyReturned({"add_to_database"}) /\ DistinctKeys) =>
        /\ Len(blob["db"].data) = Len(log)
        /\ \A i \in 1..Len(log) :
              \E j \in 1..Len(blob["db"].data) :
                  /\ NormOf(blob["db"].data[j]) = NormOf(log[i].arg)
                  /\ Get(blob["db"].data[j], "occurrences", 0) = 1

\* two processes raced: both calls ran, and one of them lost a conditional write
C1_Witness ==
    /\ Len(log) = 2
    /\ log[1].p # log[2].p
    /\ OnlyReturned({"add_to_database"}) /\ DistinctKeys
    /\ \E i \in 1..2 : log[i].uploads = 2

\* C2: when two processes call add_to_user_selection concurrently with complete
\* items of distinct non-empty dedup keys, then once both calls have returned
\* the queue holds both items (the loser's retry does not overwrite the winner).
C2_BothItemsKept ==
    (OnlyReturned({"add_to_user_selection"}) /\ DistinctKeys) =>
        \A i \in 1..Len(log) : KeyOfArg(log[i]) \in KeysOfRows(blob["sel"].data)

\* the calls of the given kind that returned something other than None
Delivered(kind) ==
    {i \in 1..Len(log) :
        log[i].kind = kind /\ log[i].status = "returned" /\ log[i].val # <<>>}

\* C3: pop_user_selection_item delivers each stored item to at most one caller:
\* the pops that returned an item are never more than the items put in the queue.
C3_PopAtMostOnce ==
    Cardinality(Delivered("pop_user_selection_item"))
        <= Cardinality({i \in 1..Len(log) : log[i].kind = "add_to_user_selection"})

\* C4: in every reachable state no two rows of one collection have equal dedup keys.
C4_UniqueDedupKeys ==
    \A c \in Colls :
        \A i, j \in 1..Len(blob[c].data) :
            i # j => build_dedup_key(NormOf(blob[c].data[i]))
                        # build_dedup_key(NormOf(blob[c].data[j]))


\* the same logical item: the same normalized text, or two texts that differ
\* only by stop-words and case
SameLogicalItem(n1, n2) == n1 = n2 \/ {n1, n2} = {NHelloWorld, NHelloPlayerWorld}

\* two upserts into one empty collection, the second begun after the first returned
TwoUpsertsInTurn ==
    /\ Len(log) = 2
    /\ OnlyReturned({"add_to_database", "add_to_discards"})
    /\ log[1].kind = log[2].kind
    /\ log[2].alone

OneRowOccurrencesTwo(data) == Len(data) = 1 /\ Get(data[1], "occurrences", 1) = 2

\* C5, as the specification states it: inserting two items with equal dedup keys one after the other
\* into an empty accepted corpus or rejected pile leaves exactly one row, with
\* occurrences = 2.
C5_OneRowOccurrencesTwo ==
    (TwoUpsertsInTurn /\ KeyOfArg(log[1]) = KeyOfArg(log[2])) =>
        OneRowOccurrencesTwo(blob[CollOf(log[1].kind)].data)

\* C5, for non-empty keys: the same, for two complete items with equal NON-EMPTY dedup
\* keys (the same item twice, or two items whose normalized texts differ only
\* by stop-words and case).
C5_OneRowOccurrencesTwoNonEmptyKey ==
    (/\ TwoUpsertsInTurn
     /\ SameLogicalItem(NormOf(log[1].arg), NormOf(log[2].arg))
     /\ NormOf(log[1].arg) # NPlayerDrinks) =>
        OneRowOccurrencesTwo(blob[CollOf(log[1].kind)].data)

\* two texts that differ by a stop-word and by case went into the rejected pile
C5_Witness ==
    /\ TwoUpsertsInTurn
    /\ log[1].kind = "add_to_discards"
    /\ NormOf(log[1].arg) = NHelloWorld
    /\ NormOf(log[2].arg) = NHelloPlayerWorld

\* two processes called add_to_database with items of one dedup key, and both
\* calls have returned
TwoAddsOfOneKey ==
    /\ Len(log) = 2
    /\ log[1].p # log[2].p
    /\ OnlyReturned({"add_to_database"})
    /\ KeyOfArg(log[1]) = KeyOfArg(log[2])

\* C26: when two processes call add_to_database concurrently with items of the
\* same dedup key against the empty corpus, then for every interleaving the
\* corpus ends with exactly one row for that key, with occurrences = 2.
C26_NoLostIncrement ==
    TwoAddsOfOneKey =>
        /\ OneRowOccurrencesTwo(blob["db"].data)
        /\ build_dedup_key(NormOf(blob["db"].data[1])) = KeyOfArg(log[1])

\* the two calls overlapped, and the one that lost its conditional write redid
\* the download and the duplicate test: it raised the winner's row
C26_Witness ==
    /\ TwoAddsOfOneKey
    /\ ~log[2].alone
    /\ {NormOf(log[1].arg), NormOf(log[2].arg)} = {NHelloWorld, NHelloPlayerWorld}
    /\ \E i \in 1..2 : log[i].uploads = 2
    /\ OneRowOccurrencesTwo(blob["db"].data)

\* the positions of the rows of `data` whose dedup key is one of `keys`
RowsWithKeys(data, keys) ==
    {i \in 1..Len(data) : build_dedup_key(NormOf(data[i])) \in keys}

\* a removal by one process and an add_to_database by another have both
\* returned, and the key of the added item is not one of the removed keys
RemoveAndAddReturned(r, a) ==
    /\ Len(log) = 2
    /\ {r, a} = {1, 2}
    /\ log[r].kind = "remove_from_database_by_normalized"
    /\ log[a].kind = "add_to_database"
    /\ log[r].p # log[a].p
    /\ log[r].status = "returned" /\ log[a].status = "returned"
    /\ KeyOfArg(log[a]) \notin CandidateKeys(log[r].arg)

\* C27: when remove_from_database_by_normalized(keys) runs concurrently with
\* add_to_database of an item whose dedup key is not in keys, then once both
\* have returned the added item is present, no row with a dedup key in keys
\* remains, and the returned count is the number of rows the removal deleted.
C27_RemoveRacingInsert ==
    \A r, a \in 1..Len(log) :
        RemoveAndAddReturned(r, a) =>
            LET keys    == CandidateKeys(log[r].arg)
                before  == log[1].before
                deleted == Cardinality(RowsWithKeys(before, keys))
                had     == RowsWithKeys(before, {KeyOfArg(log[a])}) # {}
                data    == blob["db"].data
            IN  /\ KeyOfArg(log[a]) \in KeysOfRows(data)
                /\ RowsWithKeys(data, keys) = {}
                /\ log[r].val = <<deleted>>
                /\ Len(data) = Len(before) - deleted + (IF had THEN 0 ELSE 1)

\* the two calls overlapped, one of them lost a conditional write and redid its
\* pass over the fresh rows; the removal deleted two rows and the item is there
C27_Witness ==
    /\ RemoveAndAddReturned(1, 2)
    /\ ~log[2].alone
    /\ \E i \in 1..2 : log[i].uploads = 2
    /\ log[1].val = <<2>>
    /\ NormOf(log[2].arg) = NFoo
    /\ blob["db"].data = <<PipelineItem(NFoo)>>

\* the text fields of a row
TextsOfRow(row) ==
    <<Get(row, "default", <<>>), Get(row, "cleaned", <<>>), NormOf(row)>>

\* the last call, begun when no other was running, has returned; it is an
\* upsert or an increment
LaterObservation ==
    /\ log # <<>>
    /\ log[Len(log)].alone /\ log[Len(log)].status = "returned"
    /\ log[Len(log)].kind \in {"add_to_database", "add_to_discards",
                               "increment_database_item_occurrences",
                               "increment_discarded_item_occurrences"}

\* the rows after an observation: each row stored before it is where it was,
\* with the texts it had
TextsKept(before, after) ==
    /\ Len(after) >= Len(before)
    /\ \A k \in 1..Len(before) : TextsOfRow(after[k]) = TextsOfRow(before[k])

\* the rows after a duplicate observation: as many as before, one row of the
\* key with occurrences raised by 1, every other row with what it had
OnlyCounterRaised(before, after, key) ==
    /\ Len(after) = Len(before)
    /\ \E k \in 1..Len(before) :
          /\ build_dedup_key(NormOf(before[k])) = key
          /\ Get(after[k], "occurrences", 1) = Get(before[k], "occurrences", 1) + 1
          /\ \A j \in 1..Len(before) :
                j # k => Get(after[j], "occurrences", 1)
                            = Get(before[j], "occurrences", 1)

\* C35: an upsert (add_to_database or add_to_discards) of an item whose dedup
\* key matches an existing row raises that row's occurrences by exactly 1 and
\* leaves the text fields of every row, the number of rows and their order
\* unchanged; the text fields of a stored row are never changed by a later
\* upsert or increment.
C35_DuplicateTouchesOnlyCounter ==
    LaterObservation =>
        LET e      == log[Len(log)]
            before == e.before
            after  == blob[CollOf(e.kind)].data
        IN  /\ TextsKept(before, after)
            /\ (/\ e.kind \in {"add_to_database", "add_to_discards"}
                /\ KeyOfArg(e) \in KeysOfRows(before)) =>
                    OnlyCounterRaised(before, after, KeyOfArg(e))

\* what the code does keep: the same, for an item whose key is not empty
DuplicateTouchesOnlyCounterNonEmptyKey ==
    LaterObservation =>
        LET e      == log[Len(log)]
            before == e.before
            after  == blob[CollOf(e.kind)].data
        IN  /\ TextsKept(before, after)
            /\ (/\ e.kind \in {"add_to_database", "add_to_discards"}
                /\ KeyOfArg(e) # <<>>
                /\ KeyOfArg(e) \in KeysOfRows(before)) =>
                    OnlyCounterRaised(before, after, KeyOfArg(e))

\* after a first add had returned, a pop by one process and an add of another
\* key by another process were made, and both have returned; the pop returned
\* an item
PopAndAddReturned(r, a) ==
    /\ Len(log) = 3
    /\ {r, a} = {2, 3}
    /\ log[1].kind = "add_to_user_selection" /\ log[2].alone
    /\ log[r].kind = "pop_user_selection_item"
    /\ log[a].kind = "add_to_user_selection"
    /\ log[r].p # log[a].p
    /\ \A i \in 1..3 : log[i].status = "returned"
    /\ log[r].val # <<>>
    /\ KeyOfArg(log[a]) # <<>>
    /\ KeyOfArg(log[a]) # build_dedup_key(NormOf(log[r].val[1]))

\* C36: for any interleaving of pop_user_selection_item in one process and
\* add_to_user_selection of a different key in another, once both have
\* returned the item the pop returned is no longer in the queue and the added
\* item is in the queue.
C36_PoppedNotResurrected ==
    \A r, a \in 1..Len(log) :
        PopAndAddReturned(r, a) =>
            /\ build_dedup_key(NormOf(log[r].val[1])) \notin KeysOfRows(blob["sel"].data)
            /\ KeyOfArg(log[a]) \in KeysOfRows(blob["sel"].data)

\* what the code does keep: the same when the second of the two calls began
\* after the first had returned
PopThenAddInTurn ==
    \A r, a \in 1..Len(log) :
        (PopAndAddReturned(r, a) /\ log[3].alone) =>
            /\ build_dedup_key(NormOf(log[r].val[1])) \notin KeysOfRows(blob["sel"].data)
            /\ KeyOfArg(log[a]) \in KeysOfRows(blob["sel"].data)

\* one client: every call so far was made by the same process, one at a time
OneClient == \A i \in 1..Len(log) : log[i].p = log[1].p

\* the last call made, an add_to_user_selection by the only client, has returned
LastAddReturned ==
    /\ log # <<>>
    /\ OneClient
    /\ log[Len(log)].kind = "add_to_user_selection"
    /\ log[Len(log)].status = "returned"

\* the row of `data` that has the dedup key of the item, 0 when there is none
SharesKey(data, item) ==
    FirstMatch(data, build_dedup_key(NormOf(item)))

NonEmptyKeysUnique ==
    \A c \in Colls :
        \A i, j \in 1..Len(blob[c].data) :
            (i # j /\ build_dedup_key(NormOf(blob[c].data[i])) # <<>>) =>
                build_dedup_key(NormOf(blob[c].data[i]))
                    # build_dedup_key(NormOf(blob[c].data[j]))


\* C10: every store mutation sends at most maxRetries + 1 = 6 conditional writes;
\* a call raises only after its 6th write failed, and a call still running has
\* failed at most maxRetries times: no schedule of conflicts keeps it retrying.
C10_RetriesBounded ==
    /\ \A i \in 1..Len(log) :
          /\ log[i].uploads <= maxRetries + 1
          /\ log[i].status = "raised" => log[i].uploads = maxRetries + 1
    /\ \A p \in Procs : attempt[p] <= maxRetries

\* a call lost all its six conditional writes and raised
C10_Witness ==
    \E i \in 1..Len(log) : log[i].status = "raised" /\ log[i].uploads = maxRetries + 1


\* the lines a run sent to cleaning
LinesOf(i) == {log[i].val[k] : k \in 1..Len(log[i].val)}

Runs == {i \in 1..Len(log) : log[i].kind = "_select_and_remove_items"}

\* C8: no pool line is processed by two Workflow runs on the same pool, and a run
\* sends lines to cleaning only if its own conditional write, against the
\* generation it read, removed them from the pool.
C8_SelectionExclusive ==
    /\ \A i, j \in Runs : i # j => LinesOf(i) \cap LinesOf(j) = {}
    /\ \A i \in Runs : LinesOf(i) # {} =>
          /\ log[i].status = "returned"
          /\ log[i].uploads = 1
          /\ LinesOf(i) \subseteq {log[i].before[k] : k \in 1..Len(log[i].before)}
    /\ \A i \in Runs : log[i].status = "returned" =>
          \A k \in 1..Len(blob["pool"].data) : blob["pool"].data[k] \notin LinesOf(i)

\* two runs overlapped on a pool with lines: one got its lines, the other lost the
\* conditional write and got none
C8_Witness ==
    \E i, j \in Runs :
        /\ log[i].p # log[j].p
        /\ ~log[j].alone
        /\ log[i].status = "returned" /\ LinesOf(i) # {}
        /\ log[j].status = "raised"


\* C28: a conditional write of the raw pool that fails because the pool's
\* generation changed is retried (the pool is read, sampled and written again):
\* no candidate selection fails on its first conflict.
C28_PoolConflictsRetried ==
    \A i \in Runs : log[i].status = "raised" => log[i].uploads > 1

\* how many times the line occurs in the list
CopiesOf(line, lines) == Cardinality({k \in 1..Len(lines) : lines[k] = line})

PoolLinesOf(lines) == {lines[k] : k \in 1..Len(lines)}

\* p's _select_and_remove_items succeeds in this step
SelectionSucceeds(p) == pc[p] = "pool_upload" /\ pc'[p] = "idle" /\ blob' # blob

\* C38: after _select_and_remove_items succeeds, the multiset of the lines of the
\* pool is the previous multiset minus exactly the returned lines, so as many
\* lines left the pool as were selected, also when the pool holds identical lines.
C38_PoolConservation ==
    [][\A p \in Procs : SelectionSucceeds(p) =>
          \A line \in PoolLinesOf(blob["pool"].data) :
              CopiesOf(line, blob["pool"].data)
                  = CopiesOf(line, blob'["pool"].data) + CopiesOf(line, lret[p])]_vars

\* the same for the pools whose lines are pairwise different
PoolConservationDistinctLines ==
    [][\A p \in Procs :
          /\ SelectionSucceeds(p)
          /\ \A line \in PoolLinesOf(blob["pool"].data) :
                CopiesOf(line, blob["pool"].data) = 1
          => \A line \in PoolLinesOf(blob["pool"].data) :
                CopiesOf(line, blob["pool"].data)
                    = CopiesOf(line, blob'["pool"].data) + CopiesOf(line, lret[p])]_vars

\* p's conditional write of the pool fails in this step: another writer changed
\* the pool after p read it
LosesPoolRace(p) ==
    /\ pc[p] = "pool_upload"
    /\ pc'[p] = "idle"
    /\ ~PreconditionHolds(blob["pool"], lgen[p])

\* the runs that have returned after their selection lost the race
LostRuns ==
    {r \in 1..Len(log) : log[r].kind = "run" /\ log[log[r].arg].status = "raised"}

\* C39: when the conditional write of the pool in _select_and_remove_items fails
\* because another writer changed the pool first, the failing step leaves every
\* blob as it is and returns no line; the run sends no line to cleaning and
\* returns status 'error' with processed = 0 and failed = 0.
C39_LostPoolRaceHasNoEffect ==
    /\ [][\A p \in Procs : LosesPoolRace(p) =>
             /\ blob' = blob
             /\ log'[Pending(p)].status = "raised"
             /\ log'[Pending(p)].val = <<>>]_vars
    /\ [](\A i \in Runs : log[i].status = "raised" => ResultsOf(i) = {})
    /\ [](\A r \in LostRuns : log[r].val = <<"error", 0, 0>>)

C39_Witness ==
    \E r \in LostRuns :
        /\ log[r].val = <<"error", 0, 0>>
        /\ \E i \in Runs : i # log[r].arg /\ log[i].status = "returned"
                            /\ log[i].val # <<>>

(***************************************************************************)
(* Properties of the pipeline and the reviewer's actions                   *)
(***************************************************************************)
\* C7: promoting an item into the accepted corpus never adds a row whose dedup
\* key is in the rejected pile, so after any sequence of pipeline and reviewer
\* actions no dedup key is a row of both the accepted corpus and the rejected
\* pile.  Stated for the non-empty keys, those of the valid corpus entries.
C7_SharedNamespace ==
    (KeysOfRows(blob["db"].data) \cap KeysOfRows(blob["disc"].data)) \ {<<>>} = {}

\* the occurrences of the row of `data` with the dedup key, 0 when it has no such row
OccurrencesOf(data, key) ==
    IF FirstMatch(data, key) = 0 THEN 0
    ELSE Get(data[FirstMatch(data, key)], "occurrences", 1)

\* C9: when the pipeline's duplicate check finds the item's dedup key in the
\* accepted corpus or the rejected pile, the pipeline raises the occurrences of
\* the entry in whichever of the two holds it and the queue gets no entry; when
\* the key is in neither, the item is upserted into the pending queue.
C9_EnqueueOrSkip ==
    (log # <<>> /\ log[Len(log)].kind = "_process_single_item") =>
        LET e      == log[Len(log)]
            key    == build_dedup_key(e.arg)
            holder == IF FirstMatch(e.bucket["db"].data, key) > 0 THEN "db" ELSE "disc"
        IN  IF e.val = <<TRUE>>
            THEN /\ OccurrencesOf(blob[holder].data, key)
                      = OccurrencesOf(e.bucket[holder].data, key) + 1
                 /\ blob["sel"] = e.bucket["sel"]
            ELSE \E i \in 1..Len(blob["sel"].data) :
                    build_dedup_key(NormOf(blob["sel"].data[i])) = key

(***************************************************************************)
(* Properties of the existence checks                                      *)
(***************************************************************************)
\* p's existence check answers in this step
Answers(p) == pc[p] \in {"db_exists", "exists_load"} /\ pc'[p] = "idle"

\* the answer p gives: is the dedup key of the text it asked about the key of
\* a row of the collection, as the collection is when the answer is given
AnswerIsMembership(p) ==
    log'[Pending(p)].val =
        <<build_dedup_key(call[p].arg)
             \in KeysOfRows(blob[CollOf(call[p].kind)].data)>>

\* C11, as the specification states it: the answer of exists_in_database(n) and of
\* exists_in_discards(n) is the membership of n's dedup key in the blob content
\* at the time of the call, whatever this process last loaded or wrote.
C11_ExistsIsMembership ==
    [][\A p \in Procs : Answers(p) => AnswerIsMembership(p)]_vars

\* C11, for non-empty keys: the answer of exists_in_database(n) and of
\* exists_in_discards(n), for n with a non-empty dedup key, is the membership of
\* that key in the blob content at the time of the call, whatever this process
\* last loaded or wrote.
C11_ExistsIsMembershipNonEmptyKey ==
    [][\A p \in Procs :
          (Answers(p) /\ build_dedup_key(call[p].arg) # <<>>)
              => AnswerIsMembership(p)]_vars

\* a process asked about a key while the corpus was absent, another process
\* then added a row with that key, and the first process was answered True
C11_Witness ==
    /\ Len(log) = 2
    /\ log[1].kind = "exists_in_database" /\ log[1].before = <<>>
    /\ log[1].status = "returned" /\ log[1].val = <<TRUE>>
    /\ log[2].kind = "add_to_database" /\ log[2].p # log[1].p
    /\ log[2].status = "returned"

\* the rows of `data` that remove_from_database_by_normalized([n]) is to remove:
\* those with the dedup key of n
RowsWithKeyOf(data, n) ==
    {i \in 1..Len(data) : build_dedup_key(NormOf(data[i])) = build_dedup_key(n)}

\* a removal and then an existence check, one after the other with no other call
RemoveThenExists ==
    /\ Len(log) = 2
    /\ log[1].kind = "remove_from_database_by_normalized"
    /\ log[1].status = "returned"
    /\ log[2].kind = "exists_in_database"
    /\ log[2].alone
    /\ log[2].status = "returned"
    /\ build_dedup_key(log[2].arg) = build_dedup_key(log[1].arg[1])

\* C12: a removal for a key of the accepted corpus returns the number of rows
\* removed (0 when no row has the key), and exists_in_database for that key right
\* after it, with no writer in between, returns False.
C12_RemoveThenExists ==
    /\ (/\ log # <<>>
        /\ log[1].kind = "remove_from_database_by_normalized"
        /\ log[1].status = "returned"
        /\ Len(log) = 2 => log[2].alone /\ log[2].kind = "exists_in_database") =>
            /\ log[1].val = <<Len(log[1].before) - Len(blob["db"].data)>>
            /\ RowsWithKeyOf(log[1].before, log[1].arg[1]) = {} => log[1].val = <<0>>
    /\ (RemoveThenExists /\ RowsWithKeyOf(log[1].before, log[1].arg[1]) # {}) =>
            log[2].val = <<FALSE>>

\* what holds of the removal: the same, for the non-empty keys
RemoveThenExistsNonEmptyKey ==
    (/\ RemoveThenExists
     /\ build_dedup_key(log[2].arg) # <<>>
     /\ RowsWithKeyOf(log[1].before, log[1].arg[1]) # {}) =>
        log[1].val = <<1>> /\ log[2].val = <<FALSE>>

\* C13: for a candidate whose dedup key is empty, DatabaseManager.exists_in_database
\* (the pipeline's duplicate check) returns False, whatever the accepted corpus
\* and the rejected pile hold.
C13_EmptyKeyNeverDuplicate ==
    \A i \in 1..Len(log) :
        (log[i].kind = "_process_single_item" /\ build_dedup_key(log[i].arg) = <<>>)
            => log[i].val = <<FALSE>>

\* C14: after any sequence of add_to_user_selection, add_to_discards and
\* add_to_database calls with arbitrary items, every row of the pending queue,
\* the rejected pile and the accepted corpus has non-empty default, cleaned and
\* normalized fields.
C14_OnlyCompleteRows ==
    \A c \in Colls : \A i \in 1..Len(blob[c].data) : IsComplete(blob[c].data[i])

\* what the two guarded stores keep: the rows of the pending queue and of the
\* rejected pile are complete
GuardedStoresKeepComplete ==
    \A c \in {"sel", "disc"} :
        \A i \in 1..Len(blob[c].data) : IsComplete(blob[c].data[i])

(***************************************************************************)
(* Properties of the loaders                                               *)
(***************************************************************************)
Upserts == {"add_to_database", "add_to_user_selection", "add_to_discards"}

\* C15: on a blob whose content is not valid JSON, or is JSON but no array, no
\* call raises and the loaders give the empty list (a pop returns None, an
\* existence check False); a following upsert succeeds with one write against
\* the blob's generation and leaves a well-formed array that holds the item,
\* and nothing else.
C15_CorruptionDegradesToEmpty ==
    /\ \A i \in 1..Len(log) : log[i].status # "raised" /\ log[i].uploads <= 1
    /\ (log # <<>> /\ log[1].status = "returned") =>
          CASE log[1].kind = "pop_user_selection_item" -> log[1].val = <<>>
            [] log[1].kind \in {"exists_in_database", "exists_in_discards"} ->
                  log[1].val = <<FALSE>>
            [] OTHER -> TRUE
    /\ (Len(log) = 1 /\ log[1].status = "returned" /\ log[1].kind \in Upserts) =>
          LET b == blob[CollOf(log[1].kind)]
          IN  /\ log[1].uploads = 1
              /\ b.generation = 2
              /\ IsArray(b.data)
              /\ Len(b.data) = 1
              /\ NormOf(b.data[1]) = NormOf(log[1].arg)
    /\ \A c \in Colls : blob[c].generation > 1 => IsArray(blob[c].data)

\* an item was upserted into the rejected pile, whose blob held a JSON object
C15_Witness ==
    /\ Len(log) = 1
    /\ log[1].kind = "add_to_discards"
    /\ log[1].before = NotAnArray
    /\ log[1].status = "returned"
    /\ blob["disc"].generation = 2

(***************************************************************************)
(* Properties of the pending queue as a queue                              *)
(***************************************************************************)
\* the calls so far: k adds of items with pairwise distinct dedup keys, then pops
AddsThenPops(k) ==
    /\ \A i \in 1..k : log[i].kind = "add_to_user_selection"
    /\ \A i \in (k + 1)..Len(log) : log[i].kind = "pop_user_selection_item"
    /\ \A i, j \in 1..k : i # j => KeyOfArg(log[i]) # KeyOfArg(log[j])

\* C16: with one client, after k items with distinct dedup keys were added to the
\* empty queue, the pops return them in insertion order, each pop removing what
\* it returns, and the pop after the k-th returns None.
C16_PopFrontIsFifo ==
    \A k \in 0..Len(log) :
        AddsThenPops(k) =>
            LET pops == Len(log) - k
                left == IF pops < k THEN pops ELSE k
            IN  /\ \A j \in 1..pops :
                      log[k + j].val = IF j <= k THEN <<UserSelectionRow(log[j].arg)>>
                                       ELSE <<>>
                /\ blob["sel"].data =
                      [i \in 1..(k - left) |-> UserSelectionRow(log[left + i].arg)]

\* three items went in, three pops took them out and a fourth found nothing
C16_Witness ==
    /\ Len(log) = 7
    /\ AddsThenPops(3)
    /\ log[7].val = <<>>

\* UserSelectionStore.get_user_selection_count on the bucket b
get_user_selection_count(b) == Len(Downloaded(b["sel"]).data)

\* the bucket as the i-th call of the log left it
BucketAfter(i) == IF i = Len(log) THEN blob ELSE log[i + 1].bucket

\* the i-th call is an add_to_user_selection of an item whose dedup key is that
\* of an entry of the queue it found
AddOfPresentKey(i) ==
    /\ log[i].kind = "add_to_user_selection"
    /\ SharesKey(Downloaded(log[i].bucket["sel"]).data, log[i].arg) > 0

\* C25: add_to_user_selection of an item whose dedup key is already present in
\* the queue leaves the queue's item count unchanged.
C25_DuplicateAddKeepsCount ==
    \A i \in 1..Len(log) :
        AddOfPresentKey(i) =>
            get_user_selection_count(BucketAfter(i))
                = get_user_selection_count(log[i].bucket)

\* what the code does keep: the count is unchanged when the key that is already
\* present is not the empty one
DuplicateAddKeepsCountNonEmptyKey ==
    \A i \in 1..Len(log) :
        (AddOfPresentKey(i) /\ KeyOfArg(log[i]) # <<>>) =>
            get_user_selection_count(BucketAfter(i))
                = get_user_selection_count(log[i].bucket)

(***************************************************************************)
(* Properties of a run of the pipeline                                     *)
(***************************************************************************)
\* the runs that returned whose selection returned at least one line
BatchRuns ==
    {r \in 1..Len(log) :
        /\ log[r].kind = "run"
        /\ log[log[r].arg].status = "returned"
        /\ log[log[r].arg].val # <<>>}

\* the results of run r that say the line failed
FailedOf(r) == {e \in ResultsOf(log[r].arg) : log[e].val = <<FALSE>>}

\* the line of result e was new when it was checked: neither the corpus nor the
\* pile held a row with its dedup key
WasNew(e) ==
    build_dedup_key(log[e].normalized)
        \notin (KeysOfRows(log[e].bucket["db"].data)
                \cup KeysOfRows(log[e].bucket["disc"].data))

C18_StatusClassification ==
    \A r \in 1..Len(log) :
        log[r].kind = "run" =>
            LET selection == log[log[r].arg]
                status    == log[r].val[1]
                n         == Len(selection.val)
                f         == Cardinality(FailedOf(r))
                raised    == \/ selection.status = "raised"
                             \/ \E e \in ResultsOf(log[r].arg) : log[e].escaped
            IN  /\ status \in {"no_items", "all_failed", "partial_success",
                               "success", "error"}
                /\ status = "error" <=> raised
                /\ status = "no_items" <=> (~raised /\ n = 0)
                /\ (~raised /\ n > 0) =>
                      /\ status = "all_failed" <=> f = n
                      /\ status = "partial_success" <=> (0 < f /\ f < n)
                      /\ status = "success" <=> f = 0
                      /\ log[r].val[3] = f
                      /\ log[r].val[2] + log[r].val[3] = n

\* a run of two lines returned 'partial_success'
C18_Witness ==
    \E r \in BatchRuns :
        /\ log[r].val = <<"partial_success", 1, 1>>
        /\ Cardinality(FailedOf(r)) = 1

\* the results of cleaning so far
Results == {e \in 1..Len(log) : log[e].kind = "_process_single_item"}

Enqueued(e) == log[e].after["sel"] # log[e].bucket["sel"]

\* the lines of the pool, as normalized texts
PoolLines == {<<line>> : line \in {"l1", "l2"}}

Batches == {i \in 1..Len(log) : log[i].kind = "subprocess.run"}

\* C29: if the existence check raises for a line, the pipeline reports the line
\* as failed and does not add it to the pending queue; a line is enqueued only
\* when the check completed and answered 'not present'.
C29_FailedCheckFailsItem ==
    \A e \in 1..Len(log) :
        log[e].kind = "_process_single_item" =>
            LET after == log[e].after
            IN  /\ log[e].check = "raised" => log[e].val = <<FALSE>>
                /\ after["sel"] # log[e].bucket["sel"] => log[e].check = "not_present"

\* what the code does keep: a line whose check answered 'present' is not
\* enqueued, and one whose check answered 'not present' succeeds
AnsweredCheckIsObeyed ==
    \A e \in 1..Len(log) :
        log[e].kind = "_process_single_item" =>
            LET after == log[e].after
            IN  /\ log[e].check = "present" => after["sel"] = log[e].bucket["sel"]
                /\ log[e].check \in {"present", "not_present"} => log[e].val = <<TRUE>>

\* the results of run r for lines whose cleaning was answered with a text that
\* is empty after post-processing or normalization (validation skips)
SkippedOf(r) ==
    {e \in ResultsOf(log[r].arg) : ~log[e].raised /\ log[e].normalized = <<>>}

\* C30: a line whose cleaned or normalized text is empty is skipped and is not
\* counted as failed; a batch in which every line is skipped for this reason
\* is not classified 'all_failed'.
C30_ValidationSkipsNotFailures ==
    \A r \in BatchRuns :
        log[r].val[1] # "error" =>
            /\ log[r].val[3] <= Cardinality(ResultsOf(log[r].arg) \ SkippedOf(r))
            /\ SkippedOf(r) = ResultsOf(log[r].arg) => log[r].val[1] # "all_failed"

\* what the code does keep: the lines counted as failed are those whose
\* cleaning raised and those with an empty text, and no other
FailedAreRaisedOrSkipped ==
    \A r \in BatchRuns :
        log[r].val[1] # "error" =>
            log[r].val[3] = Cardinality({e \in ResultsOf(log[r].arg) :
                                            log[e].raised \/ e \in SkippedOf(r)})

\* C20: the prefetcher runs a batch only when the depth it measured is below
\* targetCapacity, it leaves its loop as soon as the measured depth is
\* targetCapacity or more, and it never runs a batch while the pending queue
\* holds targetCapacity or more rows.
C20_GatedByQueueDepth ==
    /\ \A i \in Batches :
          /\ log[i].currentCount < log[i].targetCapacity
          /\ Len(log[i].bucket["sel"].data) < log[i].targetCapacity
    /\ \A p \in Procs :
          pc[p] \in {"run", "measure"} => log[Pending(p)].currentCount < call[p].arg

\* every batch was run on a measured depth below targetCapacity
BatchesGatedByMeasuredDepth ==
    \A i \in Batches : log[i].currentCount < log[i].targetCapacity

\* the batches run on a pool of two lines for the default target
TwoLineBatches ==
    {i \in Batches : log[i].targetCapacity = 10 /\ Len(log[i].bucket["pool"].data) = 2}

\* no batch was run on a pool without lines; and when a batch was run on a
\* pool of two lines for target 10, it is the only batch, the pool is empty
\* after it and the queue has grown by at most 2
ExhaustionIsSafe ==
    /\ \A i \in Batches : log[i].bucket["pool"].data # <<>>
    /\ \A i \in TwoLineBatches :
          /\ Batches = {i}
          /\ blob["pool"].data = <<>>
          /\ Len(blob["sel"].data) - Len(log[i].bucket["sel"].data) \in 0..2

Measured == {i \in Batches : log[i].adapted # 0}

\* the pending queue's depth before batch i, and after it
DepthBefore(i) == get_user_selection_count(log[i].bucket)

DepthAfter(i) ==
    LET later == {j \in Batches : j > i}
    IN  IF later = {} THEN get_user_selection_count(blob)
        ELSE get_user_selection_count(
                 log[CHOOSE j \in later : \A k \in later : j <= k].bucket)

\* the multiplier at every point of the loop: between 2 and 10; and the batch
\* size: x >= deficit >= 1 for the deficit the loop computed
MultiplierAndBatchBounds ==
    /\ \A i \in 1..Len(log) :
          log[i].kind = "main" => log[i].multiplier \in 2000..10000
    /\ \A i \in Batches :
          LET deficit == log[i].targetCapacity - log[i].currentCount
          IN  /\ deficit >= 1
              /\ log[i].arg >= deficit
              /\ log[i].arg = Overfetch(deficit, log[i].multiplier)
    /\ \A i \in Measured : log[i].adapted \in 2000..10000

\* C33: after each batch of size x with yield = added / x, where added is the
\* pending-queue depth after the batch minus the depth before it, the
\* multiplier m becomes min(2m, 10) if yield < 0.25, max(2, 0.8m) if
\* yield > 0.75 and m > 2, and is otherwise unchanged; in every iteration
\* 2 <= multiplier <= 10 and the batch size satisfies x >= deficit >= 1.
C33_MultiplierAdaptation ==
    /\ MultiplierAndBatchBounds
    /\ \A i \in Measured :
          LET m     == log[i].multiplier
              x     == log[i].arg
              added == DepthAfter(i) - DepthBefore(i)
          IN  log[i].adapted =
                 IF 4 * added < x THEN (IF 2 * m < 10000 THEN 2 * m ELSE 10000)
                 ELSE IF 4 * added > 3 * x /\ m > 2000
                      THEN (IF (8 * m) \div 10 > 2000 THEN (8 * m) \div 10 ELSE 2000)
                      ELSE m

\* what the code does keep: the rule, for the yield of the two counts that
\* countUserSelection answered
AdaptationFollowsMeasuredCounts ==
    /\ MultiplierAndBatchBounds
    /\ \A i \in Measured :
          LET diff == log[i].afterCount - log[i].currentCount
          IN  log[i].adapted = Adapted(log[i].multiplier,
                                       IF diff > 0 THEN diff ELSE 0, log[i].arg)

\* p is inside the replenishment loop
InLoop(p) == pc[p] \in {"count", "run", "measure"}

\* the runs of main that found the lock file present
FoundLocked == {i \in 1..Len(log) : log[i].kind = "main" /\ log[i].found = "present"}

\* C34: for any interleaving of prefetcher processes started in the same
\* directory, at most one of them is inside the replenishment loop at any
\* time; a process that finds the lock file present exits without running any
\* batch.
C34_LockMutualExclusion ==
    /\ \A p, q \in Procs : (InLoop(p) /\ InLoop(q)) => p = q
    /\ \A i \in FoundLocked :
          /\ log[i].status = "returned" /\ ~InLoop(log[i].p)
          /\ \A b \in Batches : log[b].p # log[i].p

\* a process found the lock of the other, which was in its loop and has since
\* run a batch
C34_Witness ==
    \E i \in FoundLocked, b \in Batches :
        /\ i < b
        /\ log[b].p # log[i].p
        /\ InLoop(log[b].p)

\* C40: a prefetcher process that created the lock file removes it on every
\* exit path of its loop (target reached, pool empty or unreadable, workflow
\* file missing, exception), so the lock is free once the holder has stopped;
\* a process that did not create the lock never deletes it.
C40_LockReleaseDiscipline ==
    [][/\ \A p \in Procs :
            (InLoop(p) /\ pc'[p] = "idle") => lockFile' = "absent"
       /\ (lockFile = "present" /\ lockFile' = "absent") =>
            \E p \in Procs : InLoop(p) /\ pc'[p] = "idle"
       /\ (\A p \in Procs : pc'[p] = "idle") => lockFile' = "absent"]_vars

\* the holder left its loop through an exception; the other process took the
\* lock afterwards and left through a break: the lock is free
C40_Witness ==
    /\ Len(log) >= 2
    /\ log[1].kind = "main" /\ log[1].val = <<"exception">>
    /\ \E i \in 2..Len(log) :
          /\ log[i].kind = "main" /\ log[i].p # log[1].p
          /\ log[i].found = "absent" /\ log[i].status = "returned"
          /\ log[i].val \in {<<"target">>, <<"no_pool">>, <<"no_workflow">>}
    /\ lockFile = "absent"

(***************************************************************************)
(* Properties of the sampler                                               *)
(***************************************************************************)
\* C22: for a pool of m items and n < m, probabilistic_sample returns exactly
\* n items, each from a distinct position of the pool; for m <= n it returns
\* the whole pool in its original order.
C22_SampleSizeNoReplacement ==
    \A e \in 1..Len(log) :
        (log[e].kind = "probabilistic_sample" /\ log[e].status # "pending") =>
            LET items == log[e].arg.items
                n     == log[e].arg.n
            IN  /\ log[e].status = "returned"
                /\ IF Len(items) <= n THEN log[e].val = items
                   ELSE /\ Len(log[e].val) = n
                        /\ \A i \in 1..n : log[e].val[i] \in 1..Len(items)
                        /\ \A i, j \in 1..n : i # j => log[e].val[i] # log[e].val[j]

\* C32: whenever the total weight of the remaining candidates is zero, before
\* the first draw or after any draw, probabilistic_sample falls back to uniform
\* sampling of the remainder: it does not raise, and still returns n items.
C32_ZeroWeightFallback ==
    \A e \in 1..Len(log) :
        log[e].kind = "probabilistic_sample" =>
            /\ log[e].status # "raised"
            /\ (log[e].status = "returned" /\ Len(log[e].arg.items) > log[e].arg.n) =>
                    Len(log[e].val) = log[e].arg.n

\* what the code does keep: the fallback before the first draw (a pool whose
\* weights are all zero is sampled uniformly)
FallbackBeforeFirstDraw ==
    \A e \in 1..Len(log) :
        (log[e].kind = "probabilistic_sample" /\ SumOf(log[e].arg.weights) = 0) =>
            log[e].status # "raised"

\* what C22 says, for the calls that returned
ReturnedSamplesAreDistinct ==
    \A e \in 1..Len(log) :
        (log[e].kind = "probabilistic_sample" /\ log[e].status = "returned") =>
            LET items == log[e].arg.items
                n     == log[e].arg.n
            IN  IF Len(items) <= n THEN log[e].val = items
                ELSE /\ Len(log[e].val) = n
                     /\ \A i \in 1..n : log[e].val[i] \in 1..Len(items)
                     /\ \A i, j \in 1..n : i # j => log[e].val[i] # log[e].val[j]

(***************************************************************************)
(* Properties of the dedup key                                             *)
(***************************************************************************)
\* C23: for every text t, build_dedup_key(normalize(build_dedup_key(normalize(t))))
\* is build_dedup_key(normalize(t)).
C23_DedupKeyIdempotent ==
    \A e \in 1..Len(log) :
        log[e].kind = "build_dedup_key" => log[e].val[2] = log[e].val[1]

\* the same for the texts without U+0130
IdempotentWithoutDottedI ==
    \A e \in 1..Len(log) :
        (log[e].kind = "build_dedup_key"
            /\ \A i \in 1..Len(log[e].arg) : log[e].arg[i] # "I_DOT") =>
        log[e].val[2] = log[e].val[1]

RECURSIVE SplitWords(_)
\* the whitespace-separated tokens of a text
SplitWords(text) ==
    IF text = <<>> THEN <<>>
    ELSE IF IsSpace(Head(text)) THEN SplitWords(Tail(text))
    ELSE LET n == RunLength(text)
         IN  <<SubSeq(text, 1, n)>> \o SplitWords(SubSeq(text, n + 1, Len(text)))

\* a token that is not a stop-word, whatever its case
IsKeptToken(word) == LowerChars(word) \notin StopWords

\* the tokens without the stop-words, lowercased
KeptTokens(text) ==
    LET kept == SelectSeq(SplitWords(text), IsKeptToken)
    IN  [i \in 1..Len(kept) |-> LowerChars(kept[i])]

InitRefresh ==
    /\ blob \in {[c \in Blobs |-> AbsentBlob],
                 [c \in Blobs |-> IF c = "db"
                                  THEN [generation |-> 1, data |-> <<StoredRow>>]
                                  ELSE AbsentBlob]}
    /\ NothingRunning

\* add_to_database: downloadJson in _refresh_cache raises after the upload; the
\* call is inside the try, so the except branch counts an attempt and the loop
\* starts over with a new download
DbRefreshRaises(p) ==
    /\ pc[p] = "db_refresh"
    /\ call[p].kind = "add_to_database"
    /\ UNCHANGED <<blob, dedupCache, initialized>>
    /\ IF RetriesExhausted(attempt[p] + 1)
       THEN End(p, "raised", <<>>)
       ELSE /\ attempt' = [attempt EXCEPT ![p] = @ + 1]
            /\ pc' = [pc EXCEPT ![p] = "db_download"]
            /\ UNCHANGED <<call, ldata, lgen, lret, log, session, lockFile>>

NextRefresh ==
    \/ CallAddToDatabase("p1")
    \/ DbInitialize("p1")
    \/ DbDownload("p1")
    \/ DbUpload("p1")
    \/ DbRefresh("p1")
    \/ DbRefreshRaises("p1")

SpecRefresh == InitRefresh /\ [][NextRefresh]_vars

\* the sum of the occurrences over the rows
RECURSIVE OccurrencesSum(_)
OccurrencesSum(data) ==
    IF data = <<>> THEN 0
    ELSE Get(Head(data), "occurrences", 1) + OccurrencesSum(Tail(data))

\* the corpus when call i of the one client had ended
CorpusAfter(i) == IF i < Len(log) THEN log[i + 1].before ELSE blob["db"].data

\* C37: an add_to_database that returns has performed exactly one successful
\* conditional write, and the sum of the occurrences over the accepted corpus
\* has grown by exactly 1 on account of it, also when the cache refresh after
\* the write fails and the retry loop is entered again.
C37_EffectExactlyOnce ==
    \A i \in 1..Len(log) :
        log[i].kind = "add_to_database" /\ log[i].status = "returned"
            => /\ log[i].uploads = 1
               /\ OccurrencesSum(CorpusAfter(i)) = OccurrencesSum(log[i].before) + 1

\* every write of a returned add_to_database raises the sum by one: the sum grows
\* by the number of the writes the call performed
EffectOncePerWrite ==
    \A i \in 1..Len(log) :
        log[i].kind = "add_to_database" /\ log[i].status = "returned"
            => OccurrencesSum(CorpusAfter(i))
                   = OccurrencesSum(log[i].before) + log[i].uploads

=============================================================================
